---- MODULE Spec2Model ----
(***************************************************************************)
(* A model of the mcp-go gateway: the HTTP transport (REST variant, the     *)
(* event-stream parser and the streamable-http variant), the backend       *)
(* client with its lazy initialization, the gateway registry and router,   *)
(* and the JSON-RPC front-end server with its session table.               *)
(*                                                                         *)
(* Strings are sequences of tokens (words), so that prefix tests, prefix   *)
(* stripping, message formatting and substring search are computed as the  *)
(* code computes them.                                                     *)
(***************************************************************************)
EXTENDS Integers, Sequences, FiniteSets, TLC

VARIABLES
    serverGateway,  \* Server.gateway # nil: the process was started with a gateway
    clients,        \* Gateway.clients: backend id -> [prefix, initialized] (MCPClient)
    regOrder,       \* history: the backend ids in the order of their successful AddClient
    backend,        \* environment: how each registered backend answers HTTP requests
    last,           \* history: the most recent operation, its inputs and its outcome
    sessions,       \* Server.sessions: the set of session identifiers in the table
    mu,             \* Server.mu: 0 when free, else the request whose handler holds it
    clock,          \* time.Now().UnixNano() as last read
    pc,             \* per inbound request: the position of its handleMCP goroutine
    req,            \* per inbound request: the HTTP request being handled
    reply,          \* per inbound request: what handleMCP wrote (headers, framing, envelope)
    requestID,      \* HTTPTransport.requestID of a streamable-http transport
    tSessionID,     \* HTTPTransport.sessionID (t.sessionID) of that transport, "" when none
    clientInit,     \* MCPClient.initialized of the client that owns the transport
    readers,        \* MCPClient.mu: the goroutines that hold its read lock
    writer,         \* MCPClient.mu: the goroutine that holds its write lock, 0 when none
    workers,        \* ListAllTools: the goroutines it started, by the client each one lists
    results,        \* ListAllTools: the channel the goroutines send their results on
    lister,         \* ListAllTools: the calling goroutine, its snapshot and what it received
    gmu,            \* Gateway.mu: the goroutines that hold its read lock, the writer that waits
    gwpc,           \* per goroutine that calls Gateway.CallTool: its position and its call
    gpc,            \* per calling goroutine: its position in ListTools / CallTool
    glocal,         \* per calling goroutine: the operation and its local requestID
    wire,           \* history: the requests sent to and the responses received from the backend
    closed          \* history: the backends whose Close has been called by CloseAll

gwVars == <<serverGateway, clients, regOrder, backend, last>>
srvVars == <<sessions, mu, clock, pc, req, reply>>
fanVars == <<workers, results, lister>>
lockVars == <<gmu, gwpc>>
trVars == <<requestID, tSessionID, clientInit, readers, writer, gpc, glocal, wire, fanVars,
           lockVars, closed>>
vars == <<serverGateway, clients, regOrder, backend, last, sessions, mu, clock, pc, req, reply,
          requestID, tSessionID, clientInit, readers, writer, gpc, glocal, wire,
          workers, results, lister, gmu, gwpc, closed>>

(***************************************************************************)
(* Bounds of the model                                                     *)
(***************************************************************************)
NumBackends == 2     \* backend names available for registration
NumRequests == 2     \* inbound requests handled concurrently by the server
NumGoroutines == 2   \* goroutines that call one BackendClient concurrently
MaxCalls == 2        \* ListTools / CallTool calls each goroutine makes on that client
MaxClock == 3        \* the clock readings the model distinguishes

Backends == 1..NumBackends
Requests == 1..NumRequests
Goroutines == 1..NumGoroutines

NameOf == <<"b1", "b2", "b3", "b4">>

(***************************************************************************)
(* Strings                                                                 *)
(***************************************************************************)
\* strings.HasPrefix
HasPrefix(s, p) == Len(s) >= Len(p) /\ SubSeq(s, 1, Len(p)) = p

\* strings.Contains
Contains(s, substr) ==
    \E i \in 0..(Len(s) - Len(substr)) : SubSeq(s, i + 1, i + Len(substr)) = substr

findSubstring(s, substr) ==
    \E i \in 0..(Len(s) - Len(substr)) : SubSeq(s, i + 1, i + Len(substr)) = substr

\* the server's own substring test
contains(s, substr) ==
    Len(s) >= Len(substr) /\
        (s = substr \/ (Len(s) > Len(substr) /\ findSubstring(s, substr)))

NotFoundText == <<"not", "found">>

Quote(s) == <<"'">> \o s \o <<"'">>

NoErr == << >>      \* a nil error
NoResp == << >>     \* a nil *ToolResponse / a nil tool slice

isNotFoundError(err) == IF err = NoErr THEN FALSE ELSE contains(err, NotFoundText)

(***************************************************************************)
(* The inputs of the model                                                 *)
(***************************************************************************)
Prefixes == {<< >>, <<"p:">>}

X == <<"x">>
Y == <<"y">>
ToolLists == {<< >>, <<X, Y>>, << <<"p:", "x">> >>}

\* tool names a caller asks for: unprefixed, prefixed, equal to the prefix,
\* hosted nowhere, and the local capabilities
CallNames == {X, <<"p:", "x">>, <<"p:">>, <<"z">>}
LocalNames == {<<"echo">>, <<"google_pse_search">>}

InitModes == {"ok", "404", "500"}
HealthModes == {"up", "500nf", "down"}
\* a backend that is not up lists and hosts nothing
Behaviours ==
    {beh \in [init : InitModes, health : HealthModes, tools : ToolLists] :
        beh.health # "up" => beh.tools = << >>}

NewBackend == [init |-> "ok", health |-> "up", tools |-> << >>]

EmptyMap == [x \in {} |-> 0]

\* the orders in which a range over a Go map, or a set of goroutines, can visit S
Perms(S) ==
    {f \in [1..Cardinality(S) -> S] : \A i, j \in 1..Cardinality(S) : i # j => f[i] # f[j]}

(***************************************************************************)
(* The backend, as the transport sees it: one HTTP exchange                *)
(***************************************************************************)
ToolOf(b, n) == [name |-> n, description |-> <<NameOf[b]>>]

ContentOf(b, n) == <<[type |-> "text", text |-> <<NameOf[b], "ran">> \o n]>>

Hosts(b, n) == \E i \in 1..Len(backend[b].tools) : backend[b].tools[i] = n

ErrorExchange(mode) ==
    CASE mode = "404"   -> [net |-> "ok", status |-> "404", body |-> <<"404", "page", "not", "found">>]
      [] mode = "500"   -> [net |-> "ok", status |-> "500", body |-> <<"boom">>]
      [] mode = "500nf" -> [net |-> "ok", status |-> "500", body |-> <<"upstream", "not", "found">>]
      [] mode = "down"  -> [net |-> "err", status |-> "", body |-> <<"connection", "refused">>]

BackendHTTP(b, op, n) ==
    CASE op = "initialize" ->
            IF backend[b].init = "ok"
            THEN [net |-> "ok", status |-> "200", body |-> <<"2024-11-05">>]
            ELSE ErrorExchange(backend[b].init)
      [] op = "tools/list" ->
            IF backend[b].health = "up"
            THEN [net |-> "ok", status |-> "200",
                  body |-> [i \in 1..Len(backend[b].tools) |-> ToolOf(b, backend[b].tools[i])]]
            ELSE ErrorExchange(backend[b].health)
      [] op = "tools/call" ->
            IF backend[b].health = "up"
            THEN IF Hosts(b, n)
                 THEN [net |-> "ok", status |-> "200", body |-> ContentOf(b, n)]
                 ELSE [net |-> "ok", status |-> "404", body |-> <<"Tool", "not", "found">>]
            ELSE ErrorExchange(backend[b].health)

(***************************************************************************)
(* HTTPTransport, REST variant                                             *)
(***************************************************************************)
initializeREST(http) ==
    IF http.net = "err" THEN <<"failed", "to", "initialize", ":">> \o http.body
    ELSE IF http.status # "200"
         THEN <<"initialize", "failed", "with", "status", http.status, ":">> \o http.body
    ELSE IF http.body # <<"2024-11-05">>
         THEN <<"unsupported", "protocol", "version", ":">> \o http.body
    ELSE NoErr

listToolsREST(http) ==
    IF http.net = "err"
    THEN [tools |-> NoResp, err |-> <<"failed", "to", "list", "tools", ":">> \o http.body]
    ELSE IF http.status # "200"
         THEN [tools |-> NoResp,
               err |-> <<"list", "tools", "failed", "with", "status", http.status, ":">> \o http.body]
    ELSE [tools |-> http.body, err |-> NoErr]

callToolREST(http, name) ==
    IF http.net = "err"
    THEN [resp |-> NoResp, err |-> <<"failed", "to", "call", "tool", ":">> \o http.body]
    ELSE IF http.status = "404"
         THEN [resp |-> NoResp, err |-> <<"tool">> \o Quote(name) \o NotFoundText]
    ELSE IF http.status # "200"
         THEN [resp |-> NoResp,
               err |-> <<"tool", "call", "failed", "with", "status", http.status, ":">> \o http.body]
    ELSE [resp |-> http.body, err |-> NoErr]

(***************************************************************************)
(* MCPClient                                                               *)
(*                                                                         *)
(* Every client operation yields a record: b the backend, wasInit and      *)
(* initialized the flag before and after, log the transport calls made,    *)
(* each with the HTTP exchange that answered it, err the error returned    *)
(* (NoErr for nil), and tools or resp, the value returned.                 *)
(***************************************************************************)
\* ensureInitialized once the transport has answered Initialize with http
InitializeVia(b, c, http) ==
    LET e == initializeREST(http) IN
    IF e # NoErr
    THEN [b |-> b, wasInit |-> FALSE, initialized |-> FALSE,
          log |-> <<[op |-> "Initialize", http |-> http]>>,
          err |-> <<"failed", "to", "initialize", "client", NameOf[b], ":">> \o e]
    ELSE [b |-> b, wasInit |-> FALSE, initialized |-> TRUE,
          log |-> <<[op |-> "Initialize", http |-> http]>>, err |-> NoErr]

\* an ensureInitialized that does not read the flag
InitializeEveryTime(b, c) ==
    [InitializeVia(b, c, BackendHTTP(b, "initialize", << >>)) EXCEPT !.wasInit = c.initialized]

\* c is the client (clients[b])
ensureInitialized(b, c) ==
    IF c.initialized
    THEN [b |-> b, wasInit |-> TRUE, initialized |-> TRUE, log |-> << >>, err |-> NoErr]
    ELSE InitializeVia(b, c, BackendHTTP(b, "initialize", << >>))

\* Initialize has the body of ensureInitialized
ClientInitialize(b, c) == ensureInitialized(b, c)

\* a prefixing that takes names that already begin with the prefix as done
ApplyPrefixIfAbsent(prefix, tools) ==
    [i \in 1..Len(tools) |->
        IF HasPrefix(tools[i].name, prefix) THEN tools[i]
        ELSE [tools[i] EXCEPT !.name = prefix \o tools[i].name]]

ApplyPrefix(prefix, tools) ==
    IF prefix # << >>
    THEN [i \in 1..Len(tools) |-> [tools[i] EXCEPT !.name = prefix \o tools[i].name]]
    ELSE tools

\* ListTools once the transport has answered ListTools with http
ListToolsVia(b, c, ini, http) ==
    LET r == listToolsREST(http) IN
    IF r.err # NoErr
    THEN [b |-> b, wasInit |-> ini.wasInit, initialized |-> TRUE,
          log |-> ini.log \o <<[op |-> "ListTools", http |-> http]>>,
          tools |-> NoResp,
          err |-> <<"failed", "to", "list", "tools", "from", NameOf[b], ":">> \o r.err]
    ELSE [b |-> b, wasInit |-> ini.wasInit, initialized |-> TRUE,
          log |-> ini.log \o <<[op |-> "ListTools", http |-> http]>>,
          tools |-> ApplyPrefix(c.prefix, r.tools), err |-> NoErr]

\* ListTools once ensureInitialized has returned ini
ListToolsAfter(b, c, ini) ==
    IF ini.err # NoErr
    THEN [b |-> b, wasInit |-> ini.wasInit, initialized |-> ini.initialized,
          log |-> ini.log, tools |-> NoResp, err |-> ini.err]
    ELSE ListToolsVia(b, c, ini, BackendHTTP(b, "tools/list", << >>))

ClientListTools(b, c) == ListToolsAfter(b, c, ensureInitialized(b, c))

StripPrefix(prefix, name) ==
    IF prefix # << >> /\ Len(name) > Len(prefix)
    THEN IF SubSeq(name, 1, Len(prefix)) = prefix
         THEN SubSeq(name, Len(prefix) + 1, Len(name))
         ELSE name
    ELSE name

\* CallTool once the transport has answered CallTool(actualName) with http
CallToolVia(b, name, ini, actualName, http) ==
    LET r == callToolREST(http, actualName) IN
    IF r.err # NoErr
    THEN [b |-> b, wasInit |-> ini.wasInit, initialized |-> TRUE,
          log |-> ini.log \o <<[op |-> "CallTool", name |-> actualName, http |-> http]>>,
          resp |-> NoResp,
          err |-> <<"failed", "to", "call", "tool">> \o name \o <<"on", NameOf[b], ":">> \o r.err]
    ELSE [b |-> b, wasInit |-> ini.wasInit, initialized |-> TRUE,
          log |-> ini.log \o <<[op |-> "CallTool", name |-> actualName, http |-> http]>>,
          resp |-> r.resp, err |-> NoErr]

\* a failed transport call that is issued a second time
CallToolAgain(b, name, ini, actualName, r) ==
    IF r.err = NoErr THEN r
    ELSE CallToolVia(b, name, [ini EXCEPT !.log = r.log], actualName,
                     BackendHTTP(b, "tools/call", actualName))

CallToolRetrying(b, c, name, ini) ==
    IF ini.err # NoErr
    THEN [b |-> b, wasInit |-> ini.wasInit, initialized |-> ini.initialized,
          log |-> ini.log, resp |-> NoResp, err |-> ini.err]
    ELSE CallToolAgain(b, name, ini, StripPrefix(c.prefix, name),
                       CallToolVia(b, name, ini, StripPrefix(c.prefix, name),
                                   BackendHTTP(b, "tools/call", StripPrefix(c.prefix, name))))

\* CallTool once ensureInitialized has returned ini
CallToolAfter(b, c, name, ini) ==
    IF ini.err # NoErr
    THEN [b |-> b, wasInit |-> ini.wasInit, initialized |-> ini.initialized,
          log |-> ini.log, resp |-> NoResp, err |-> ini.err]
    ELSE CallToolVia(b, name, ini, StripPrefix(c.prefix, name),
                     BackendHTTP(b, "tools/call", StripPrefix(c.prefix, name)))

ClientCallTool(b, c, name) == CallToolAfter(b, c, name, ensureInitialized(b, c))

(***************************************************************************)
(* Gateway                                                                 *)
(***************************************************************************)
\* the per-client results of an operation, written back to the clients
ApplyCalls(calls) ==
    [b \in DOMAIN clients |->
        IF \E i \in 1..Len(calls) : calls[i].b = b
        THEN LET i == CHOOSE k \in 1..Len(calls) : calls[k].b = b
             IN  [clients[b] EXCEPT !.initialized = calls[i].initialized]
        ELSE clients[b]]

\* an AddClient that replaces the client registered under the name
AddClientOverwrite(c) ==
    [clients |-> [b \in DOMAIN clients \cup {c.name} |->
                    IF b = c.name THEN [prefix |-> c.prefix, initialized |-> FALSE]
                    ELSE clients[b]],
     err |-> NoErr]

\* AddClient(c), c = [name, prefix]: the registry afterwards and the error
AddClientResult(c) ==
    IF c.name \in DOMAIN clients
    THEN [clients |-> clients, err |-> <<"client", NameOf[c.name], "already", "exists">>]
    ELSE [clients |-> [b \in DOMAIN clients \cup {c.name} |->
                          IF b = c.name THEN [prefix |-> c.prefix, initialized |-> FALSE]
                          ELSE clients[b]],
          err |-> NoErr]

RECURSIVE JoinErrors(_)
JoinErrors(errs) ==
    IF Len(errs) = 0 THEN << >>
    ELSE IF Len(errs) = 1 THEN errs[1]
    ELSE errs[1] \o <<";">> \o JoinErrors(Tail(errs))

\* a collection that keeps the first failure only
InitErrorsFirst(calls, i) ==
    IF \E k \in i..Len(calls) : calls[k].err # NoErr
    THEN LET k == CHOOSE k \in i..Len(calls) :
                    calls[k].err # NoErr /\ \A j \in i..(k - 1) : calls[j].err = NoErr
         IN  <<(<<NameOf[calls[k].b], ":">> \o calls[k].err)>>
    ELSE << >>

RECURSIVE InitErrors(_, _)
InitErrors(calls, i) ==
    IF i > Len(calls) THEN << >>
    ELSE IF calls[i].err # NoErr
         THEN <<(<<NameOf[calls[i].b], ":">> \o calls[i].err)>> \o InitErrors(calls, i + 1)
         ELSE InitErrors(calls, i + 1)

\* the error InitializeAll returns for the errors it has collected
InitializeAllError(errors) ==
    IF Len(errors) > 0
    THEN <<"some", "clients", "failed", "to", "initialize", ":">> \o JoinErrors(errors)
    ELSE NoErr

InitializeAllDone(order, calls) ==
    [order |-> order, calls |-> calls, err |-> InitializeAllError(InitErrors(calls, 1))]

\* InitializeAll, the registry snapshot being ranged over in `order`
GatewayInitializeAll(order) ==
    InitializeAllDone(order,
        [i \in 1..Len(order) |-> ClientInitialize(order[i], clients[order[i]])])

\* a collection that takes the first tool of every result before the others
RECURSIVE FirstOfEach(_, _)
FirstOfEach(calls, i) ==
    IF i > Len(calls) THEN << >>
    ELSE IF calls[i].err # NoErr \/ Len(calls[i].tools) = 0 THEN FirstOfEach(calls, i + 1)
    ELSE <<Head(calls[i].tools)>> \o FirstOfEach(calls, i + 1)

RECURSIVE RestOfEach(_, _)
RestOfEach(calls, i) ==
    IF i > Len(calls) THEN << >>
    ELSE IF calls[i].err # NoErr \/ Len(calls[i].tools) = 0 THEN RestOfEach(calls, i + 1)
    ELSE Tail(calls[i].tools) \o RestOfEach(calls, i + 1)

CollectToolsInterleaved(calls, i) == FirstOfEach(calls, i) \o RestOfEach(calls, i)

RECURSIVE CollectTools(_, _)
CollectTools(calls, i) ==
    IF i > Len(calls) THEN << >>
    ELSE IF calls[i].err # NoErr THEN CollectTools(calls, i + 1)
    ELSE calls[i].tools \o CollectTools(calls, i + 1)

\* a ListAllTools that fails when a backend has failed
ListAllToolsFailing(order, calls) ==
    [order |-> order, calls |-> calls, tools |-> CollectTools(calls, 1),
     err |-> InitializeAllError(InitErrors(calls, 1))]

ListAllToolsDone(order, calls) ==
    [order |-> order, calls |-> calls, tools |-> CollectTools(calls, 1), err |-> NoErr]

\* ListAllTools: one goroutine per client of the snapshot; `order` is the
\* order in which their results arrive on the channel
GatewayListAllTools(order) ==
    ListAllToolsDone(order,
        [i \in 1..Len(order) |-> ClientListTools(order[i], clients[order[i]])])

PrefixMatches(b, name) ==
    clients[b].prefix # << >> /\ HasPrefix(name, clients[b].prefix)

\* the first client in the range order whose prefix matches; 0 when none does
FirstMatch(name, order) ==
    LET idx == {i \in 1..Len(order) : PrefixMatches(order[i], name)}
    IN  IF idx = {} THEN 0 ELSE CHOOSE i \in idx : \A j \in idx : i <= j

GatewayNotFound(name) ==
    <<"tool">> \o Quote(name) \o <<"not", "found", "in", "any", "connected", "MCP", "server">>

\* a second loop that ends at the first failure, whatever it is
TrialStepAborting(name, order, i, calls, r) ==
    IF r.err = NoErr
    THEN [calls |-> Append(calls, r), resp |-> r.resp, err |-> NoErr]
    ELSE [calls |-> Append(calls, r), resp |-> NoResp, err |-> r.err]

\* the second loop of CallTool at position i of the range order: Trial calls
\* the client, TrialStep decides on its result r
RECURSIVE Trial(_, _, _, _)
TrialStep(name, order, i, calls, r) ==
    IF r.err = NoErr
    THEN [calls |-> Append(calls, r), resp |-> r.resp, err |-> NoErr]
    ELSE IF ~Contains(r.err, NotFoundText)
         THEN [calls |-> Append(calls, r), resp |-> NoResp, err |-> r.err]
         ELSE Trial(name, order, i + 1, Append(calls, r))

Trial(name, order, i, calls) ==
    IF i > Len(order)
    THEN [calls |-> calls, resp |-> NoResp, err |-> GatewayNotFound(name)]
    ELSE TrialStep(name, order, i, calls, ClientCallTool(order[i], clients[order[i]], name))

\* the first loop of CallTool returns what the matching client returns
Routed(order, r) ==
    [phase |-> "prefix", order |-> order, calls |-> <<r>>, resp |-> r.resp, err |-> r.err]

Tried(order, t) ==
    [phase |-> "trial", order |-> order, calls |-> t.calls, resp |-> t.resp, err |-> t.err]

\* a CallTool whose first loop goes on to the second loop when the matching
\* client fails
RoutedOrTried(name, order, trialOrder, r) ==
    IF r.err = NoErr THEN Routed(order, r)
    ELSE Tried(trialOrder, Trial(name, trialOrder, 1, <<r>>))

CallToolFallingThrough(name, scanOrder, trialOrder) ==
    LET m == FirstMatch(name, scanOrder) IN
    IF m # 0
    THEN RoutedOrTried(name, scanOrder, trialOrder,
                       ClientCallTool(scanOrder[m], clients[scanOrder[m]], name))
    ELSE Tried(trialOrder, Trial(name, trialOrder, 1, << >>))

\* CallTool; each of its two loops ranges over the map in an order of its own
GatewayCallTool(name, scanOrder, trialOrder) ==
    LET m == FirstMatch(name, scanOrder) IN
    IF m # 0
    THEN Routed(scanOrder, ClientCallTool(scanOrder[m], clients[scanOrder[m]], name))
    ELSE Tried(trialOrder, Trial(name, trialOrder, 1, << >>))

NoGatewayCall == [phase |-> "none", order |-> << >>, calls |-> << >>, resp |-> NoResp, err |-> NoErr]

(***************************************************************************)
(* Local capabilities                                                      *)
(***************************************************************************)
Str(s) == [kind |-> "string", v |-> s]
Num(s) == [kind |-> "number", v |-> s]
Obj(m) == [kind |-> "object", v |-> m]

IsString(m, k) == k \in DOMAIN m /\ m[k].kind = "string"
IsObject(m, k) == k \in DOMAIN m /\ m[k].kind = "object"

\* an echo that takes the empty string for a missing message
CallEchoNonEmpty(arguments) ==
    IF ~IsString(arguments, "message") \/ arguments["message"].v = << >>
    THEN [text |-> << >>,
          err |-> <<"message", "argument", "is", "required", "and", "must", "be", "a", "string">>]
    ELSE [text |-> arguments["message"].v, err |-> NoErr]

CallEcho(arguments) ==
    IF ~IsString(arguments, "message")
    THEN [text |-> << >>,
          err |-> <<"message", "argument", "is", "required", "and", "must", "be", "a", "string">>]
    ELSE [text |-> arguments["message"].v, err |-> NoErr]

\* the web-search capability calls an external service: configured and
\* answering, or not configured
CallGooglePSE(arguments, pse) ==
    IF pse = "unconfigured"
    THEN [text |-> << >>, err |-> <<"Google", "PSE", "not", "configured">>]
    ELSE IF ~IsString(arguments, "query")
         THEN [text |-> << >>,
               err |-> <<"query", "argument", "is", "required", "and", "must", "be",
                         "a", "non-empty", "string">>]
    ELSE [text |-> <<"results", "for">> \o arguments["query"].v, err |-> NoErr]

(***************************************************************************)
(* Server: the tools/call handler                                          *)
(*                                                                         *)
(* A handler yields [result, err, gw]: the result and the error it         *)
(* returns, and the Gateway operation it made (NoGatewayCall when none).   *)
(***************************************************************************)
NoResult == [content |-> << >>]

\* a local capability's (text, err) as the handler's return
LocalResult(e) ==
    IF e.err # NoErr
    THEN [result |-> NoResult, err |-> e.err, gw |-> NoGatewayCall]
    ELSE [result |-> [content |-> <<[type |-> "text", text |-> e.text]>>],
          err |-> NoErr, gw |-> NoGatewayCall]

\* a handler that returns every Gateway error as it is
RemoteResultUnchanged(name, gw) ==
    IF gw.err = NoErr
    THEN [result |-> [content |->
                        [i \in 1..Len(gw.resp) |->
                            [type |-> gw.resp[i].type, text |-> gw.resp[i].text]]],
          err |-> NoErr, gw |-> gw]
    ELSE [result |-> NoResult, err |-> gw.err, gw |-> gw]

\* the handler's return once Gateway.CallTool has returned gw
RemoteResult(name, gw) ==
    IF gw.err = NoErr
    THEN [result |-> [content |->
                        [i \in 1..Len(gw.resp) |->
                            [type |-> gw.resp[i].type, text |-> gw.resp[i].text]]],
          err |-> NoErr, gw |-> gw]
    ELSE IF ~isNotFoundError(gw.err)
    THEN [result |-> NoResult, err |-> gw.err, gw |-> gw]
    ELSE [result |-> NoResult, err |-> <<"tool">> \o Quote(name) \o NotFoundText, gw |-> gw]

\* a local capability whose failure is handed on to the Gateway
LocalOrRemote(e, name, hasGateway, scanOrder, trialOrder) ==
    IF e.err # NoErr /\ hasGateway
    THEN RemoteResult(name, GatewayCallTool(name, scanOrder, trialOrder))
    ELSE LocalResult(e)

handleToolsCallFallingBack(params, hasGateway, scanOrder, trialOrder, pse) ==
    IF params.nil
    THEN [result |-> NoResult, err |-> <<"missing", "params">>, gw |-> NoGatewayCall]
    ELSE IF ~IsString(params.m, "name")
    THEN [result |-> NoResult,
          err |-> <<"missing", "or", "invalid", "'name'", "in", "params">>,
          gw |-> NoGatewayCall]
    ELSE LET name == params.m["name"].v
             arguments == IF IsObject(params.m, "arguments")
                          THEN params.m["arguments"].v ELSE EmptyMap
         IN  IF name = <<"echo">>
             THEN LocalOrRemote(CallEcho(arguments), name, hasGateway, scanOrder, trialOrder)
             ELSE IF name = <<"google_pse_search">>
             THEN LocalOrRemote(CallGooglePSE(arguments, pse), name, hasGateway,
                                scanOrder, trialOrder)
             ELSE IF hasGateway
             THEN RemoteResult(name, GatewayCallTool(name, scanOrder, trialOrder))
             ELSE [result |-> NoResult, err |-> <<"tool">> \o Quote(name) \o NotFoundText,
                   gw |-> NoGatewayCall]

\* params = [nil, m]: the request's params mapping.  hasGateway: s.gateway # nil.
handleToolsCall(params, hasGateway, scanOrder, trialOrder, pse) ==
    IF params.nil
    THEN [result |-> NoResult, err |-> <<"missing", "params">>, gw |-> NoGatewayCall]
    ELSE IF ~IsString(params.m, "name")
    THEN [result |-> NoResult,
          err |-> <<"missing", "or", "invalid", "'name'", "in", "params">>,
          gw |-> NoGatewayCall]
    ELSE LET name == params.m["name"].v
             arguments == IF IsObject(params.m, "arguments")
                          THEN params.m["arguments"].v ELSE EmptyMap
         IN  IF name = <<"echo">> THEN LocalResult(CallEcho(arguments))
             ELSE IF name = <<"google_pse_search">>
             THEN LocalResult(CallGooglePSE(arguments, pse))
             ELSE IF hasGateway
             THEN RemoteResult(name, GatewayCallTool(name, scanOrder, trialOrder))
             ELSE [result |-> NoResult, err |-> <<"tool">> \o Quote(name) \o NotFoundText,
                   gw |-> NoGatewayCall]

(***************************************************************************)
(* Inputs of tools/call                                                    *)
(***************************************************************************)
EchoArgs == {[message |-> Str(<<"hi">>)], [message |-> Str(<< >>)], [message |-> Num(<<"7">>)]}
SearchArgs == {[query |-> Str(<<"tla">>)]}

CallParams ==
    {[nil |-> TRUE, m |-> EmptyMap], [nil |-> FALSE, m |-> EmptyMap],
     [nil |-> FALSE, m |-> [name |-> Num(<<"7">>)]]}
    \cup {[nil |-> FALSE, m |-> [name |-> Str(n)]] : n \in CallNames}
    \cup {[nil |-> FALSE, m |-> [name |-> Str(<<"echo">>)]]}
    \cup {[nil |-> FALSE, m |-> [name |-> Str(<<"echo">>), arguments |-> Obj(a)]] : a \in EchoArgs}
    \cup {[nil |-> FALSE, m |-> [name |-> Str(<<"google_pse_search">>), arguments |-> Obj(a)]] :
            a \in SearchArgs}

PSEOutcomes == {"ok", "unconfigured"}

(***************************************************************************)
(* Initial state                                                           *)
(***************************************************************************)
NoRequest == [method |-> ""]
NoReply == [status |-> ""]

Init ==
    /\ serverGateway \in BOOLEAN
    /\ clients = EmptyMap
    /\ regOrder = << >>
    /\ backend = EmptyMap
    /\ last = [op |-> "none"]
    /\ sessions = {}
    /\ mu = 0
    /\ clock = 0
    /\ pc = [r \in Requests |-> "idle"]
    /\ req = [r \in Requests |-> NoRequest]
    /\ reply = [r \in Requests |-> NoReply]
    /\ requestID = 1
    /\ tSessionID = ""
    /\ clientInit = FALSE
    /\ readers = {}
    /\ writer = 0
    /\ workers = EmptyMap
    /\ results = << >>
    /\ lister = [pc |-> "idle", snapshot |-> {}, capacity |-> 0, pre |-> EmptyMap,
                 received |-> << >>, runs |-> 0]
    /\ gmu = [readers |-> {}, pending |-> [op |-> "none"]]
    /\ gwpc = [g \in Goroutines |-> [pc |-> "idle", calls |-> 0]]
    /\ gpc = [g \in Goroutines |-> "idle"]
    /\ glocal = [g \in Goroutines |-> [op |-> "", id |-> 0, calls |-> 0]]
    /\ wire = << >>
    /\ closed = {}

(***************************************************************************)
(* Gateway operations.  last records the latest operation: its inputs, the *)
(* registry it found (pre) and its outcome (out).                          *)
(***************************************************************************)
\* Gateway.AddClient(c); a newly registered backend is up and hosts nothing
\* until BackendChanges
AddClient(c) ==
    /\ serverGateway
    /\ last' = [op |-> "AddClient", c |-> c, pre |-> clients, out |-> AddClientResult(c)]
    /\ clients' = last'.out.clients
    /\ regOrder' = IF last'.out.err = NoErr THEN Append(regOrder, c.name) ELSE regOrder
    /\ backend' = IF last'.out.err = NoErr
                  THEN [b \in DOMAIN backend \cup {c.name} |->
                            IF b = c.name THEN NewBackend ELSE backend[b]]
                  ELSE backend
    /\ UNCHANGED trVars
    /\ UNCHANGED <<serverGateway, sessions, mu, clock, pc, req, reply>>

\* Gateway.InitializeAll
InitializeAll(order) ==
    /\ serverGateway
    /\ last' = [op |-> "InitializeAll", pre |-> clients, out |-> GatewayInitializeAll(order)]
    /\ clients' = ApplyCalls(last'.out.calls)
    /\ UNCHANGED trVars
    /\ UNCHANGED <<serverGateway, regOrder, backend, sessions, mu, clock, pc, req, reply>>

\* Gateway.ListAllTools
ListAllTools(order) ==
    /\ serverGateway
    /\ last' = [op |-> "ListAllTools", pre |-> clients, out |-> GatewayListAllTools(order)]
    /\ clients' = ApplyCalls(last'.out.calls)
    /\ UNCHANGED trVars
    /\ UNCHANGED <<serverGateway, regOrder, backend, sessions, mu, clock, pc, req, reply>>

\* the tools/call handler applied to a request's params, Gateway.CallTool included
ToolsCall(params, scanOrder, trialOrder, pse) ==
    /\ last' = [op |-> "tools/call", params |-> params, pre |-> clients,
                out |-> handleToolsCall(params, serverGateway, scanOrder, trialOrder, pse)]
    /\ clients' = ApplyCalls(last'.out.gw.calls)
    /\ UNCHANGED trVars
    /\ UNCHANGED <<serverGateway, regOrder, backend, sessions, mu, clock, pc, req, reply>>

\* the environment: a registered backend starts answering differently.  The
\* answer to initialize is read only while the client is uninitialized, so
\* it is left alone once the client is initialized.
BackendChanges(b, beh) ==
    /\ b \in DOMAIN backend
    /\ beh # backend[b]
    /\ clients[b].initialized => beh.init = backend[b].init
    /\ backend' = [backend EXCEPT ![b] = beh]
    /\ last' = [op |-> "none"]
    /\ UNCHANGED trVars
    /\ UNCHANGED <<serverGateway, clients, regOrder, sessions, mu, clock, pc, req, reply>>

\* a call that finds no matching prefix runs the second loop only, so one
\* range order stands for both loops
Next ==
    \/ \E b \in Backends, p \in Prefixes : AddClient([name |-> b, prefix |-> p])
    \/ \E order \in Perms(DOMAIN clients) : InitializeAll(order)
    \/ \E order \in Perms(DOMAIN clients) : ListAllTools(order)
    \/ \E params \in CallParams, order \in Perms(DOMAIN clients), pse \in PSEOutcomes :
            ToolsCall(params, order, order, pse)
    \/ \E b \in Backends, beh \in Behaviours : BackendChanges(b, beh)

Spec == Init /\ [][Next]_vars

(***************************************************************************)
(* Server: the JSON-RPC endpoint                                           *)
(***************************************************************************)
GetEchoTool == [name |-> <<"echo">>, description |-> <<"Echo", "back", "the", "provided", "message">>]
GetGooglePSETool == [name |-> <<"google_pse_search">>, description |-> <<"Search", "the", "web">>]

handleInitialize ==
    [result |-> [protocolVersion |-> "2024-11-05", tools |-> TRUE,
                 name |-> "mcp-go", version |-> "0.1.0"],
     err |-> NoErr, gw |-> NoGatewayCall]

\* a tools/list that fails when a backend has failed
ToolsListResultFailing(gw) ==
    IF \E i \in 1..Len(gw.calls) : gw.calls[i].err # NoErr
    THEN [result |-> [tools |-> << >>],
          err |-> <<"failed", "to", "list", "remote", "tools">>, gw |-> gw]
    ELSE [result |-> [tools |-> <<GetEchoTool, GetGooglePSETool>> \o gw.tools],
          err |-> NoErr, gw |-> gw]

\* the handler's return once Gateway.ListAllTools has returned gw
ToolsListResult(gw) ==
    [result |-> [tools |-> <<GetEchoTool, GetGooglePSETool>>
                                \o (IF gw.err # NoErr THEN << >> ELSE gw.tools)],
     err |-> NoErr, gw |-> gw]

handleToolsList(hasGateway, order) ==
    IF hasGateway THEN ToolsListResult(GatewayListAllTools(order))
    ELSE ToolsListResult([order |-> << >>, calls |-> << >>, tools |-> << >>, err |-> NoErr])

\* the Accept header decides the framing
useSSE(acceptHeader) ==
    \/ acceptHeader = << >>
    \/ acceptHeader = <<"text/event-stream">>
    \/ acceptHeader = <<"*/*">>
    \/ (acceptHeader # << >> /\ ~Contains(acceptHeader, <<"application/json">>))

ParseErrorCode == -32700
InvalidRequestCode == -32600
MethodNotFoundCode == -32601
ServerErrorCode == -32000

\* The id member of a JSON text: null, absent, a string s, or a number.  A
\* number is an integer n, or 2^53 + n when big (the integers from 2^53 on
\* are where float64 starts to skip values).
NullID == [kind |-> "null", s |-> "", big |-> FALSE, n |-> 0]
AbsentID == [kind |-> "absent", s |-> "", big |-> FALSE, n |-> 0]
StringID(s) == [kind |-> "string", s |-> s, big |-> FALSE, n |-> 0]
NumberID(big, n) == [kind |-> "number", s |-> "", big |-> big, n |-> n]

\* the float64 nearest to 2^53 + n (0 <= n < 2^53): the even integers are
\* representable, an odd one goes to the neighbour whose mantissa is even
RoundToFloat64(n) ==
    IF n % 2 = 0 THEN n
    ELSE IF (n - 1) % 4 = 0 THEN n - 1 ELSE n + 1

\* encoding/json decoding the id into an interface{}: nil, a string, or a
\* float64 for every number
DecodeID(id) ==
    CASE id.kind \in {"null", "absent"} -> [kind |-> "nil", s |-> "", big |-> FALSE, n |-> 0]
      [] id.kind = "string" -> id
      [] id.kind = "number" ->
            [kind |-> "float64", s |-> "", big |-> id.big,
             n |-> IF id.big THEN RoundToFloat64(id.n) ELSE id.n]

\* encoding/json encoding the interface{} into the id member of the response
EncodeID(v) ==
    CASE v.kind = "nil" -> NullID
      [] v.kind = "string" -> v
      [] v.kind = "float64" -> NumberID(v.big, v.n)

\* the switch on the method: the handler's return, none for an unknown method
Dispatch(body, hasGateway, order, pse) ==
    CASE body.method = "initialize" -> handleInitialize
      [] body.method = "tools/list" -> handleToolsList(hasGateway, order)
      [] body.method = "tools/call" -> handleToolsCall(body.params, hasGateway, order, order, pse)
      [] OTHER -> [result |-> NoResult, err |-> NoErr, gw |-> NoGatewayCall]

\* an envelope that reports an unknown method as a handler failure
EnvelopeOfOneCode(body, h) ==
    IF h.err # NoErr \/ body.method \notin {"initialize", "tools/list", "tools/call"}
    THEN [jsonrpc |-> "2.0", id |-> EncodeID(DecodeID(body.id)), code |-> ServerErrorCode,
          message |-> h.err, result |-> NoResult]
    ELSE [jsonrpc |-> "2.0", id |-> EncodeID(DecodeID(body.id)), code |-> 0,
          message |-> << >>, result |-> h.result]

\* the response envelope for the handler's return h
EnvelopeOf(body, h) ==
    IF h.err # NoErr
    THEN [jsonrpc |-> "2.0", id |-> EncodeID(DecodeID(body.id)), code |-> ServerErrorCode,
          message |-> h.err, result |-> NoResult]
    ELSE IF body.method \notin {"initialize", "tools/list", "tools/call"}
    THEN [jsonrpc |-> "2.0", id |-> EncodeID(DecodeID(body.id)), code |-> MethodNotFoundCode,
          message |-> <<"Method", "not", "found">>, result |-> NoResult]
    ELSE [jsonrpc |-> "2.0", id |-> EncodeID(DecodeID(body.id)), code |-> 0, message |-> << >>, result |-> h.result]

\* the Result field of the response is a nil interface: the handler failed
\* and the response was replaced, or the method is unknown
ResultIsNil(body, h) ==
    h.err # NoErr \/ body.method \notin {"initialize", "tools/list", "tools/call"}

\* the Error field of the response is a nil pointer
ErrorIsNil(body, h) ==
    h.err = NoErr /\ body.method \in {"initialize", "tools/list", "tools/call"}

\* an encoding whose error member is a struct, which omitempty never drops
MarshalResponseErrorValue(resultIsNil, errorIsNil) ==
    {"jsonrpc", "id", "error"} \cup (IF resultIsNil THEN {} ELSE {"result"})

\* the members of the encoded response: `omitempty` drops a nil interface
\* and a nil pointer
MarshalResponse(resultIsNil, errorIsNil) ==
    {"jsonrpc", "id"} \cup (IF resultIsNil THEN {} ELSE {"result"})
                      \cup (IF errorIsNil THEN {} ELSE {"error"})

Respond(r, sessionID, h) ==
    [status |-> "200", session |-> sessionID,
     framing |-> IF useSSE(r.accept) THEN "sse" ELSE "json",
     envelope |-> EnvelopeOf(r.body, h), gw |-> h.gw, herr |-> h.err,
     keys |-> MarshalResponse(ResultIsNil(r.body, h), ErrorIsNil(r.body, h))]

\* handleMCP from the parse of the body to the write of the response, for a
\* request r = [method, session, accept, body] whose session is sessionID;
\* herr records the error the handler returned
handleMCPReply(r, sessionID, hasGateway, order, pse) ==
    IF ~r.body.ok
    THEN [status |-> "200", session |-> sessionID, framing |-> "json",
          envelope |-> [jsonrpc |-> "2.0", id |-> NullID, code |-> ParseErrorCode,
                        message |-> <<"Parse", "error">>, result |-> NoResult],
          gw |-> NoGatewayCall, herr |-> NoErr,
          keys |-> MarshalResponse(TRUE, FALSE)]
    ELSE IF r.body.jsonrpc # "2.0"
    THEN [status |-> "200", session |-> sessionID, framing |-> "json",
          envelope |-> [jsonrpc |-> "2.0", id |-> EncodeID(DecodeID(r.body.id)),
                        code |-> InvalidRequestCode,
                        message |-> <<"Invalid", "Request">>, result |-> NoResult],
          gw |-> NoGatewayCall, herr |-> NoErr,
          keys |-> MarshalResponse(TRUE, FALSE)]
    ELSE Respond(r, sessionID, Dispatch(r.body, hasGateway, order, pse))

\* generateSessionID's result for a clock reading
SessionIDOf(timestamp) == <<"session-", timestamp>>

\* the inbound requests of the model
SessionHeaders == {<< >>, <<"session-", 1>>, <<"bogus", 0>>}
AcceptHeaders == {<< >>, <<"*/*">>, <<"text/event-stream">>, <<"application/json">>,
                  <<"application/json", ",", "text/event-stream">>, <<"text/html">>}
NilParams == [nil |-> TRUE, m |-> EmptyMap]
Bodies ==
    {[ok |-> FALSE, jsonrpc |-> "", method |-> "", params |-> NilParams, id |-> NullID],
     [ok |-> TRUE, jsonrpc |-> "1.0", method |-> "initialize", params |-> NilParams,
      id |-> NumberID(FALSE, 7)],
     [ok |-> TRUE, jsonrpc |-> "2.0", method |-> "initialize", params |-> NilParams,
      id |-> NumberID(FALSE, 7)],
     [ok |-> TRUE, jsonrpc |-> "2.0", method |-> "bogus", params |-> NilParams,
      id |-> NumberID(FALSE, 7)],
     [ok |-> TRUE, jsonrpc |-> "2.0", method |-> "tools/list", params |-> NilParams, id |-> NullID],
     [ok |-> TRUE, jsonrpc |-> "2.0", method |-> "tools/call",
      params |-> [nil |-> FALSE,
                  m |-> [name |-> Str(<<"echo">>), arguments |-> Obj([message |-> Str(<<"hi">>)])]],
      id |-> NumberID(FALSE, 7)]}
HTTPRequests ==
    {[method |-> "GET", session |-> << >>, accept |-> << >>, body |-> b] :
        b \in {x \in Bodies : ~x.ok}}
    \cup [method : {"POST"}, session : SessionHeaders, accept : AcceptHeaders, body : Bodies]

\* handleMCP is entered: a request that is not a POST is answered 405 at
\* once, a POST goes on to getOrCreateSession
Receive(r, request) ==
    /\ pc[r] = "idle"
    /\ req' = [req EXCEPT ![r] = request]
    /\ IF request.method # "POST"
       THEN /\ pc' = [pc EXCEPT ![r] = "done"]
            /\ reply' = [reply EXCEPT ![r] = [status |-> "405"]]
       ELSE /\ pc' = [pc EXCEPT ![r] = "getOrCreateSession"]
            /\ UNCHANGED reply
    /\ UNCHANGED trVars
    /\ UNCHANGED <<serverGateway, clients, regOrder, backend, last, sessions, mu, clock>>

\* s.mu.Lock(), at the head of getOrCreateSession and at the head of
\* generateSessionID: granted only while nobody holds the mutex, the
\* caller itself included
Lock(r) ==
    /\ pc[r] \in {"getOrCreateSession", "generateSessionID"}
    /\ mu = 0
    /\ mu' = r
    /\ pc' = [pc EXCEPT ![r] = IF pc[r] = "getOrCreateSession" THEN "lookup" ELSE "timestamp"]
    /\ UNCHANGED trVars
    /\ UNCHANGED <<serverGateway, clients, regOrder, backend, last, sessions, clock, req, reply>>

\* the handler runs from where it stands to its next s.mu.Lock() or to its end
Proceed(r, timestamp, order, pse) ==
    /\ pc[r] \in {"lookup", "timestamp"}
    /\ IF pc[r] = "lookup" /\ ~(req[r].session # << >> /\ req[r].session \in sessions)
       THEN \* no such session: generateSessionID is called with s.mu held
            /\ pc' = [pc EXCEPT ![r] = "generateSessionID"]
            /\ UNCHANGED <<clients, sessions, mu, clock, reply>>
       ELSE /\ reply' = [reply EXCEPT ![r] =
                            handleMCPReply(req[r],
                                IF pc[r] = "lookup" THEN req[r].session
                                ELSE SessionIDOf(timestamp),
                                serverGateway, order, pse)]
            /\ sessions' = sessions \cup {reply'[r].session}
            /\ clock' = IF pc[r] = "lookup" THEN clock ELSE timestamp
            /\ mu' = 0
            /\ clients' = ApplyCalls(reply'[r].gw.calls)
            /\ pc' = [pc EXCEPT ![r] = "done"]
    /\ UNCHANGED trVars
    /\ UNCHANGED <<serverGateway, regOrder, backend, last, req>>

NextServer ==
    \/ \E r \in Requests, request \in HTTPRequests : Receive(r, request)
    \/ \E r \in Requests : Lock(r)
    \/ \E r \in Requests, timestamp \in clock..MaxClock, order \in Perms(DOMAIN clients),
          pse \in PSEOutcomes : Proceed(r, timestamp, order, pse)

SpecServer == Init /\ [][NextServer]_vars

\* the ids of the requests put to the handler
IDs == {NullID, AbsentID, StringID("abc"), NumberID(FALSE, 7), NumberID(TRUE, 1),
        NumberID(TRUE, 2)}

\* the bodies put to the handler, but for their id: a version tag that is
\* wrong or missing, each method, an unknown method, and tools/call requests
\* that succeed and that fail
BodyShapes ==
    {[ok |-> TRUE, jsonrpc |-> "1.0", method |-> "initialize", params |-> NilParams],
     [ok |-> TRUE, jsonrpc |-> "", method |-> "bogus", params |-> NilParams],
     [ok |-> TRUE, jsonrpc |-> "2.0", method |-> "initialize", params |-> NilParams],
     [ok |-> TRUE, jsonrpc |-> "2.0", method |-> "bogus", params |-> NilParams],
     [ok |-> TRUE, jsonrpc |-> "2.0", method |-> "tools/list", params |-> NilParams],
     [ok |-> TRUE, jsonrpc |-> "2.0", method |-> "tools/call", params |-> NilParams],
     [ok |-> TRUE, jsonrpc |-> "2.0", method |-> "tools/call",
      params |-> [nil |-> FALSE, m |-> [name |-> Str(<<"z">>)]]],
     [ok |-> TRUE, jsonrpc |-> "2.0", method |-> "tools/call",
      params |-> [nil |-> FALSE,
                  m |-> [name |-> Str(<<"echo">>), arguments |-> Obj([message |-> Str(<<"hi">>)])]]]}

WithID(shape, id) ==
    [ok |-> shape.ok, jsonrpc |-> shape.jsonrpc, method |-> shape.method,
     params |-> shape.params, id |-> id]

\* every Accept header with one id, every id with one Accept header
HandlerRequests ==
    {[method |-> "POST", session |-> SessionIDOf(1), accept |-> a, body |-> b] :
        a \in AcceptHeaders,
        b \in {x \in Bodies : ~x.ok} \cup {WithID(sh, NumberID(FALSE, 7)) : sh \in BodyShapes}}
    \cup {[method |-> "POST", session |-> SessionIDOf(1), accept |-> <<"application/json">>,
           body |-> WithID(sh, id)] : sh \in BodyShapes, id \in IDs}

\* handleMCP from the parse of the body on, for a POST whose session
\* getOrCreateSession has returned as sessionID.  The envelope and its
\* framing are the subject here, and one backend behind the Gateway is
\* enough for them.
ServeBody(request, sessionID, order, pse) ==
    /\ request.method = "POST"
    /\ last' = [op |-> "handleMCP", r |-> request, pre |-> clients,
                out |-> handleMCPReply(request, sessionID, serverGateway, order, pse)]
    /\ clients' = ApplyCalls(last'.out.gw.calls)
    /\ UNCHANGED trVars
    /\ UNCHANGED <<serverGateway, regOrder, backend, sessions, mu, clock, pc, req, reply>>

NextHandler ==
    \/ \E p \in Prefixes : AddClient([name |-> 1, prefix |-> p])
    \/ \E b \in Backends, beh \in Behaviours : BackendChanges(b, beh)
    \/ \E request \in HandlerRequests, order \in Perms(DOMAIN clients), pse \in PSEOutcomes :
            ServeBody(request, SessionIDOf(1), order, pse)

SpecHandler == Init /\ [][NextHandler]_vars

\* the Go scheduler runs every goroutine that can take a step; requests
\* arrive as the clients please
FairSpecServer ==
    /\ SpecServer
    /\ \A r \in Requests : WF_vars(Lock(r))
    /\ \A r \in Requests :
          WF_vars(\E timestamp \in clock..MaxClock, order \in Perms(DOMAIN clients),
                     pse \in PSEOutcomes : Proceed(r, timestamp, order, pse))

(***************************************************************************)
(* Transport: parsing an event-stream body                                 *)
(*                                                                         *)
(* A body is a sequence of lines as bufio.Scanner yields them; a line is   *)
(* its text (a sequence of tokens whose first may be a field name with its *)
(* separator) and whether it is longer than the scanner's buffer           *)
(* (bufio.MaxScanTokenSize, 64 KiB).                                       *)
(***************************************************************************)
MaxLines == 4

Line(text) == [text |-> text, long |-> FALSE]
LongLine(text) == [text |-> text, long |-> TRUE]
BlankLine == Line(<< >>)

SSELines ==
    {Line(<<"data: ", "{a">>), Line(<<"data: ", "b}">>), Line(<<"data:", "c">>),
     Line(<<"event: ", "message">>), BlankLine, LongLine(<<"data: ", "{long}">>)}

SSEBodies == UNION {[1..n -> SSELines] : n \in 0..MaxLines}

\* the bytes of the body: its lines, each followed by a line feed
RECURSIVE BodyBytes(_, _)
BodyBytes(lines, i) ==
    IF i > Len(lines) THEN << >>
    ELSE lines[i].text \o <<"\n">> \o BodyBytes(lines, i + 1)

ScanTooLong == <<"bufio.Scanner:", "token", "too", "long">>

\* the scanning loop from line i on, with the builder and the messages so far;
\* the scanner stops with an error at a line that exceeds its buffer
RECURSIVE ScanSSE(_, _, _, _)
ScanSSE(lines, i, currentData, jsonMessages) ==
    IF i > Len(lines)
    THEN [currentData |-> currentData, jsonMessages |-> jsonMessages, err |-> NoErr]
    ELSE IF lines[i].long
    THEN [currentData |-> currentData, jsonMessages |-> jsonMessages, err |-> ScanTooLong]
    ELSE IF HasPrefix(lines[i].text, <<"data: ">>)
    THEN ScanSSE(lines, i + 1, currentData \o Tail(lines[i].text), jsonMessages)
    ELSE IF (HasPrefix(lines[i].text, <<"event: ">>) \/ lines[i].text = << >>)
            /\ currentData # << >>
    THEN ScanSSE(lines, i + 1, << >>, Append(jsonMessages, currentData))
    ELSE ScanSSE(lines, i + 1, currentData, jsonMessages)

\* what parseSSEResponse returns once the loop has ended in scan
SSEResult(lines, scan) ==
    IF scan.err # NoErr
    THEN [doc |-> << >>, err |-> <<"failed", "to", "read", "SSE", "stream:">> \o scan.err]
    ELSE IF scan.jsonMessages # << >> THEN [doc |-> scan.jsonMessages[1], err |-> NoErr]
    ELSE IF scan.currentData # << >> THEN [doc |-> scan.currentData, err |-> NoErr]
    ELSE [doc |-> BodyBytes(lines, 1), err |-> NoErr]

parseSSEResponse(body) == SSEResult(body, ScanSSE(body, 1, << >>, << >>))

\* parseSSEResponse applied to a body
ParseSSE(body) ==
    /\ last' = [op |-> "parseSSEResponse", body |-> body, out |-> parseSSEResponse(body)]
    /\ UNCHANGED trVars
    /\ UNCHANGED <<serverGateway, clients, regOrder, backend, sessions, mu, clock, pc, req,
                   reply>>

NextSSE == \E body \in SSEBodies : ParseSSE(body)

SpecSSE == Init /\ [][NextSSE]_vars

(***************************************************************************)
(* Transport: the streamable-http variant (JSON-RPC 2.0 over one endpoint) *)
(*                                                                         *)
(* One BackendClient whose transport speaks this variant, called by        *)
(* several goroutines.  ensureInitialized runs under the client's          *)
(* exclusive lock, so it is one step; ListTools and CallTool hold the read *)
(* lock only, so the steps of the transport operation under it interleave. *)
(* wire is the sequence of requests sent and responses received.           *)
(***************************************************************************)
NoToken == ""
Tokens == {"s1", "s2"}
InitStatuses == {"200", "500"}
ClientOps == {"tools/list", "tools/call"}

\* a request as sent: its method, its id and its Mcp-Session-Id header
WireRequest(method, id, session) ==
    [kind |-> "request", method |-> method, id |-> id, session |-> session, status |-> ""]

\* a response as received: its status and its Mcp-Session-Id header
WireResponse(method, status, token) ==
    [kind |-> "response", method |-> method, id |-> 0, session |-> token, status |-> status]

\* a goroutine calls ListTools or CallTool on the client
Call(g, op) ==
    /\ gpc[g] = "idle"
    /\ glocal[g].calls < MaxCalls
    /\ glocal' = [glocal EXCEPT ![g] = [op |-> op, id |-> 0, calls |-> @.calls + 1]]
    /\ gpc' = [gpc EXCEPT ![g] = "ensure"]
    /\ UNCHANGED <<requestID, tSessionID, clientInit, readers, wire>>
    /\ UNCHANGED <<gwVars, srvVars, writer, fanVars, lockVars, closed>>

\* ensureInitialized under c.mu.Lock(): nothing when the flag is set, else
\* initializeStreamableHTTP, answered with `status` and the session header
\* `token`
EnsureInitialized(g, status, token) ==
    /\ gpc[g] = "ensure"
    /\ readers = {}
    /\ IF clientInit
       THEN /\ status = "200" /\ token = NoToken
            /\ gpc' = [gpc EXCEPT ![g] = "rlock"]
            /\ UNCHANGED <<requestID, tSessionID, clientInit, wire>>
       ELSE /\ requestID' = requestID + 1
            /\ wire' = wire \o <<WireRequest("initialize", requestID, NoToken),
                                 WireResponse("initialize", status, token)>>
            /\ tSessionID' = IF token # NoToken THEN token ELSE tSessionID
            /\ clientInit' = (status = "200")
            /\ gpc' = [gpc EXCEPT ![g] = IF status = "200" THEN "rlock" ELSE "idle"]
    /\ UNCHANGED <<readers, glocal>>
    /\ UNCHANGED <<gwVars, srvVars, writer, fanVars, lockVars, closed>>

\* c.mu.RLock()
RLock(g) ==
    /\ gpc[g] = "rlock"
    /\ readers' = readers \cup {g}
    /\ gpc' = [gpc EXCEPT ![g] = "read"]
    /\ UNCHANGED <<requestID, tSessionID, clientInit, glocal, wire>>
    /\ UNCHANGED <<gwVars, srvVars, writer, fanVars, lockVars, closed>>

\* requestID := t.requestID
ReadID(g) ==
    /\ gpc[g] = "read"
    /\ glocal' = [glocal EXCEPT ![g].id = requestID]
    /\ gpc' = [gpc EXCEPT ![g] = "incr"]
    /\ UNCHANGED <<requestID, tSessionID, clientInit, readers, wire>>
    /\ UNCHANGED <<gwVars, srvVars, writer, fanVars, lockVars, closed>>

\* t.requestID++, not synchronized with the other readers: the value written
\* is one more than the value loaded for the local, or than a value loaded
\* again
IncrementID(g) ==
    /\ gpc[g] = "incr"
    /\ \E v \in {glocal[g].id + 1, requestID + 1} : requestID' = v
    /\ gpc' = [gpc EXCEPT ![g] = "send"]
    /\ UNCHANGED <<tSessionID, clientInit, readers, glocal, wire>>
    /\ UNCHANGED <<gwVars, srvVars, writer, fanVars, lockVars, closed>>

\* the request is built and sent: the session header is set when
\* t.sessionID is not empty
Send(g) ==
    /\ gpc[g] = "send"
    /\ wire' = Append(wire, WireRequest(glocal[g].op, glocal[g].id, tSessionID))
    /\ gpc' = [gpc EXCEPT ![g] = "await"]
    /\ UNCHANGED <<requestID, tSessionID, clientInit, readers, glocal>>
    /\ UNCHANGED <<gwVars, srvVars, writer, fanVars, lockVars, closed>>

\* the response arrives, with the session header `token`; the operation
\* returns and the read lock is released
Response(g, token) ==
    /\ gpc[g] = "await"
    /\ wire' = Append(wire, WireResponse(glocal[g].op, "200", token))
    /\ readers' = readers \ {g}
    /\ gpc' = [gpc EXCEPT ![g] = "idle"]
    /\ UNCHANGED <<requestID, tSessionID, clientInit, glocal>>
    /\ UNCHANGED <<gwVars, srvVars, writer, fanVars, lockVars, closed>>

NextTransport ==
    \/ \E g \in Goroutines, op \in ClientOps : Call(g, op)
    \/ \E g \in Goroutines, status \in InitStatuses, token \in Tokens \cup {NoToken} :
            EnsureInitialized(g, status, token)
    \/ \E g \in Goroutines : RLock(g)
    \/ \E g \in Goroutines : ReadID(g)
    \/ \E g \in Goroutines : IncrementID(g)
    \/ \E g \in Goroutines : Send(g)
    \/ \E g \in Goroutines, token \in Tokens \cup {NoToken} : Response(g, token)

SpecTransport == Init /\ [][NextTransport]_vars

(***************************************************************************)
(* The REST front end (package server): GET /initialize, GET /tools/list   *)
(* and POST /tools/call, each handler answering with a status, a text (the *)
(* message of http.Error) or the tools / content it encodes, and the       *)
(* Gateway operation it made.                                              *)
(***************************************************************************)
RESTMethods == {"GET", "POST", "DELETE"}
MethodNotAllowed == <<"Method", "not", "allowed">>

RESTReply(status, text, tools, content, gw) ==
    [status |-> status, text |-> text, tools |-> tools, content |-> content, gw |-> gw]

\* json.Decoder.Decode into a ToolCallRequest: a body that is not JSON, a
\* name that is not a string or arguments that are not an object fail; a
\* missing name decodes to "" and missing arguments to a nil map
DecodeToolCallRequest(body) ==
    IF ~body.valid THEN [ok |-> FALSE, Name |-> << >>, Arguments |-> EmptyMap]
    ELSE IF body.params.nil THEN [ok |-> TRUE, Name |-> << >>, Arguments |-> EmptyMap]
    ELSE IF "name" \in DOMAIN body.params.m /\ ~IsString(body.params.m, "name")
    THEN [ok |-> FALSE, Name |-> << >>, Arguments |-> EmptyMap]
    ELSE IF "arguments" \in DOMAIN body.params.m /\ ~IsObject(body.params.m, "arguments")
    THEN [ok |-> FALSE, Name |-> << >>, Arguments |-> EmptyMap]
    ELSE [ok |-> TRUE,
          Name |-> IF "name" \in DOMAIN body.params.m THEN body.params.m["name"].v ELSE << >>,
          Arguments |-> IF "arguments" \in DOMAIN body.params.m
                        THEN body.params.m["arguments"].v ELSE EmptyMap]

RESTInitialize(method) ==
    IF method # "GET" THEN RESTReply("405", MethodNotAllowed, << >>, << >>, NoGatewayCall)
    ELSE RESTReply("200", <<"2024-11-05">>, << >>, << >>, NoGatewayCall)

\* GET /tools/list once Gateway.ListAllTools has returned gw
RESTToolsListOf(gw) ==
    RESTReply("200", << >>,
              <<GetEchoTool, GetGooglePSETool>> \o (IF gw.err # NoErr THEN << >> ELSE gw.tools),
              << >>, gw)

RESTToolsList(method, hasGateway, order) ==
    IF method # "GET" THEN RESTReply("405", MethodNotAllowed, << >>, << >>, NoGatewayCall)
    ELSE IF hasGateway THEN RESTToolsListOf(GatewayListAllTools(order))
    ELSE RESTToolsListOf([order |-> << >>, calls |-> << >>, tools |-> << >>, err |-> NoErr])

\* a local capability's (text, err) as the reply
RESTLocal(e, what) ==
    IF e.err # NoErr
    THEN RESTReply("400", <<"Error", "calling">> \o what \o <<"tool:">> \o e.err, << >>, << >>,
                   NoGatewayCall)
    ELSE RESTReply("200", << >>, << >>, <<[type |-> "text", text |-> e.text]>>, NoGatewayCall)

\* the reply once Gateway.CallTool has returned gw
RESTRemote(gw) ==
    IF gw.err = NoErr
    THEN RESTReply("200", << >>, << >>,
                   [i \in 1..Len(gw.resp) |->
                       [type |-> gw.resp[i].type, text |-> gw.resp[i].text]], gw)
    ELSE IF ~isNotFoundError(gw.err)
    THEN RESTReply("500", <<"Error", "calling", "remote", "tool:">> \o gw.err, << >>, << >>, gw)
    ELSE RESTReply("404", <<"Tool", "not", "found">>, << >>, << >>, gw)

\* POST /tools/call once the body has been decoded into tcr
RESTCallDecoded(tcr, hasGateway, scanOrder, trialOrder, pse) ==
    IF ~tcr.ok
    THEN RESTReply("400", <<"Error", "decoding", "request">>, << >>, << >>, NoGatewayCall)
    ELSE IF tcr.Name = <<"echo">> THEN RESTLocal(CallEcho(tcr.Arguments), <<"echo">>)
    ELSE IF tcr.Name = <<"google_pse_search">>
    THEN RESTLocal(CallGooglePSE(tcr.Arguments, pse), <<"Google", "PSE">>)
    ELSE IF hasGateway THEN RESTRemote(GatewayCallTool(tcr.Name, scanOrder, trialOrder))
    ELSE RESTReply("404", <<"Tool", "not", "found">>, << >>, << >>, NoGatewayCall)

\* a handler that decodes the body before it looks at the method
RESTToolsCallDecodeFirst(method, body, hasGateway, scanOrder, trialOrder, pse) ==
    IF ~DecodeToolCallRequest(body).ok
    THEN RESTReply("400", <<"Error", "decoding", "request">>, << >>, << >>, NoGatewayCall)
    ELSE IF method # "POST"
    THEN RESTReply("405", MethodNotAllowed, << >>, << >>, NoGatewayCall)
    ELSE RESTCallDecoded(DecodeToolCallRequest(body), hasGateway, scanOrder, trialOrder, pse)

RESTToolsCall(method, body, hasGateway, scanOrder, trialOrder, pse) ==
    IF method # "POST" THEN RESTReply("405", MethodNotAllowed, << >>, << >>, NoGatewayCall)
    ELSE RESTCallDecoded(DecodeToolCallRequest(body), hasGateway, scanOrder, trialOrder, pse)

\* the mux of StartWithGateway
RESTServe(r, hasGateway, order, pse) ==
    CASE r.path = "/initialize" -> RESTInitialize(r.method)
      [] r.path = "/tools/list" -> RESTToolsList(r.method, hasGateway, order)
      [] r.path = "/tools/call" -> RESTToolsCall(r.method, r.body, hasGateway, order, order, pse)

\* the requests of the model
NotJSON == [valid |-> FALSE, params |-> NilParams]
RESTBodies == {NotJSON} \cup {[valid |-> TRUE, params |-> p] : p \in CallParams}
RESTRequests ==
    {[path |-> p, method |-> m, body |-> NotJSON] :
        p \in {"/initialize", "/tools/list"}, m \in RESTMethods}
    \cup {[path |-> "/tools/call", method |-> "POST", body |-> b] : b \in RESTBodies}
    \cup {[path |-> "/tools/call", method |-> m, body |-> b] :
            m \in RESTMethods \ {"POST"},
            b \in {NotJSON, [valid |-> TRUE, params |-> NilParams],
                   [valid |-> TRUE, params |-> [nil |-> FALSE, m |-> [name |-> Str(X)]]]}}

\* a request is served
ServeREST(r, order, pse) ==
    /\ last' = [op |-> "REST", r |-> r, pre |-> clients,
                out |-> RESTServe(r, serverGateway, order, pse)]
    /\ clients' = ApplyCalls(last'.out.gw.calls)
    /\ UNCHANGED trVars
    /\ UNCHANGED <<serverGateway, regOrder, backend, sessions, mu, clock, pc, req, reply>>

NextREST ==
    \/ \E p \in Prefixes : AddClient([name |-> 1, prefix |-> p])
    \/ \E b \in Backends, beh \in Behaviours : BackendChanges(b, beh)
    \/ \E r \in RESTRequests, order \in Perms(DOMAIN clients), pse \in PSEOutcomes :
            ServeREST(r, order, pse)

SpecREST == Init /\ [][NextREST]_vars

(***************************************************************************)
(* BackendClient under concurrent callers: the steps of Initialize,        *)
(* ListTools and CallTool between the operations of c.mu.  wire records    *)
(* when a transport operation starts and when it returns.                  *)
(***************************************************************************)
ClientCalls == {"Initialize", "ListTools", "CallTool"}

Started(op, g) == [kind |-> "start", method |-> op, id |-> g, session |-> "", status |-> ""]
Returned(op, g, status) ==
    [kind |-> "return", method |-> op, id |-> g, session |-> "", status |-> status]

\* where a call goes once it is known that the client is initialized
AfterInitialized(op) == IF op = "Initialize" THEN "idle" ELSE "rlock"

\* a goroutine calls Initialize, ListTools or CallTool
Invoke(g, op) ==
    /\ gpc[g] = "idle"
    /\ glocal[g].calls < MaxCalls
    /\ glocal' = [glocal EXCEPT ![g] = [op |-> op, id |-> 0, calls |-> @.calls + 1]]
    /\ gpc' = [gpc EXCEPT ![g] = "lock"]
    /\ UNCHANGED <<requestID, tSessionID, clientInit, readers, writer, wire>>
    /\ UNCHANGED <<gwVars, srvVars, fanVars, lockVars, closed>>

\* a lock that is granted while readers or another writer hold the mutex
AcquireLockShared(g) ==
    /\ gpc[g] = "lock"
    /\ writer' = g
    /\ gpc' = [gpc EXCEPT ![g] = "locked"]
    /\ UNCHANGED <<requestID, tSessionID, clientInit, readers, glocal, wire>>
    /\ UNCHANGED <<gwVars, srvVars, fanVars, lockVars, closed>>

\* c.mu.Lock() at the head of Initialize and of ensureInitialized
AcquireLock(g) ==
    /\ gpc[g] = "lock"
    /\ writer = 0
    /\ readers = {}
    /\ writer' = g
    /\ gpc' = [gpc EXCEPT ![g] = "locked"]
    /\ UNCHANGED <<requestID, tSessionID, clientInit, readers, glocal, wire>>
    /\ UNCHANGED <<gwVars, srvVars, fanVars, lockVars, closed>>

\* `if c.initialized { return nil }` with the deferred Unlock, or the start
\* of c.transport.Initialize
CheckInitialized(g) ==
    /\ gpc[g] = "locked"
    /\ IF clientInit
       THEN /\ writer' = 0
            /\ gpc' = [gpc EXCEPT ![g] = AfterInitialized(glocal[g].op)]
            /\ UNCHANGED wire
       ELSE /\ wire' = Append(wire, Started("Initialize", g))
            /\ gpc' = [gpc EXCEPT ![g] = "initializing"]
            /\ UNCHANGED writer
    /\ UNCHANGED <<requestID, tSessionID, clientInit, readers, glocal>>
    /\ UNCHANGED <<gwVars, srvVars, fanVars, lockVars, closed>>

\* c.transport.Initialize returns: the flag is set on success only, the
\* error is returned otherwise, and the deferred Unlock runs
InitializeReturns(g, status) ==
    /\ gpc[g] = "initializing"
    /\ wire' = Append(wire, Returned("Initialize", g, status))
    /\ clientInit' = IF status = "200" THEN TRUE ELSE clientInit
    /\ writer' = 0
    /\ gpc' = [gpc EXCEPT ![g] = IF status = "200" THEN AfterInitialized(glocal[g].op)
                                 ELSE "idle"]
    /\ UNCHANGED <<requestID, tSessionID, readers, glocal>>
    /\ UNCHANGED <<gwVars, srvVars, fanVars, lockVars, closed>>

\* c.mu.RLock() and the start of c.transport.ListTools / CallTool
AcquireRLock(g) ==
    /\ gpc[g] = "rlock"
    /\ writer = 0
    /\ readers' = readers \cup {g}
    /\ wire' = Append(wire, Started(glocal[g].op, g))
    /\ gpc' = [gpc EXCEPT ![g] = "transport"]
    /\ UNCHANGED <<requestID, tSessionID, clientInit, writer, glocal>>
    /\ UNCHANGED <<gwVars, srvVars, fanVars, lockVars, closed>>

\* the transport operation returns and the deferred RUnlock runs
TransportReturns(g, status) ==
    /\ gpc[g] = "transport"
    /\ wire' = Append(wire, Returned(glocal[g].op, g, status))
    /\ readers' = readers \ {g}
    /\ gpc' = [gpc EXCEPT ![g] = "idle"]
    /\ UNCHANGED <<requestID, tSessionID, clientInit, writer, glocal>>
    /\ UNCHANGED <<gwVars, srvVars, fanVars, lockVars, closed>>

NextClient ==
    \/ \E g \in Goroutines, op \in ClientCalls : Invoke(g, op)
    \/ \E g \in Goroutines : AcquireLock(g)
    \/ \E g \in Goroutines : CheckInitialized(g)
    \/ \E g \in Goroutines, status \in InitStatuses : InitializeReturns(g, status)
    \/ \E g \in Goroutines : AcquireRLock(g)
    \/ \E g \in Goroutines, status \in InitStatuses : TransportReturns(g, status)

SpecClient == Init /\ [][NextClient]_vars

(***************************************************************************)
(* Gateway.ListAllTools step by step: the snapshot of the registry, one    *)
(* goroutine per client of the snapshot, the buffered channel `results`    *)
(* and the loop that receives from it.                                     *)
(***************************************************************************)
MaxRuns == 2     \* ListAllTools invocations in one behaviour

\* what the backends do while a ListAllTools is under way
FanOutBehaviours ==
    {[init |-> "ok", health |-> "up", tools |-> <<X, Y>>],
     [init |-> "500", health |-> "up", tools |-> <<X, Y>>],
     [init |-> "ok", health |-> "down", tools |-> << >>]}

\* a goroutine created by `go func(client client.Client)`
Spawned == [pc |-> "spawned", started |-> 0]

\* ListAllTools takes the snapshot under the read lock, makes the channel
\* with capacity len(clients) and starts the goroutines
Snapshot ==
    /\ serverGateway
    /\ lister.pc \in {"idle", "returned"}
    /\ lister.runs < MaxRuns
    /\ lister' = [pc |-> "collect", snapshot |-> DOMAIN clients, capacity |-> Cardinality(DOMAIN clients),
                  pre |-> clients, received |-> << >>, runs |-> lister.runs + 1]
    /\ workers' = [b \in DOMAIN clients |-> Spawned]
    /\ results' = << >>
    /\ last' = [op |-> "none"]
    /\ UNCHANGED <<requestID, tSessionID, clientInit, readers, writer, gpc, glocal, wire, lockVars, closed>>
    /\ UNCHANGED <<serverGateway, clients, regOrder, backend, sessions, mu, clock, pc, req, reply>>

\* a goroutine calls client.ListTools
WorkerCalls(b) ==
    /\ b \in DOMAIN workers
    /\ workers[b].pc = "spawned"
    /\ workers' = [workers EXCEPT ![b] = [pc |-> "listing", started |-> @.started + 1]]
    /\ UNCHANGED <<requestID, tSessionID, clientInit, readers, writer, gpc, glocal, wire, lockVars, closed>>
    /\ UNCHANGED <<results, lister, gwVars, srvVars>>

\* client.ListTools returns to the goroutine, which goes on to send
WorkerListed(b) ==
    /\ b \in DOMAIN workers
    /\ workers[b].pc = "listing"
    /\ workers' = [workers EXCEPT ![b] = [pc |-> "sending", started |-> @.started,
                                          res |-> ClientListTools(b, clients[b])]]
    /\ clients' = ApplyCalls(<<workers'[b].res>>)
    /\ UNCHANGED <<requestID, tSessionID, clientInit, readers, writer, gpc, glocal, wire, lockVars, closed>>
    /\ UNCHANGED <<results, lister, serverGateway, regOrder, backend, last, srvVars>>

\* `results <- result{...}`: the send blocks while the channel is full; the
\* goroutine ends after it
WorkerSends(b) ==
    /\ b \in DOMAIN workers
    /\ workers[b].pc = "sending"
    /\ Len(results) < lister.capacity
    /\ results' = Append(results, workers[b].res)
    /\ workers' = [workers EXCEPT ![b] = [pc |-> "exited", started |-> @.started]]
    /\ UNCHANGED <<requestID, tSessionID, clientInit, readers, writer, gpc, glocal, wire, lockVars, closed>>
    /\ UNCHANGED <<lister, gwVars, srvVars>>

\* `res := <-results` in the collecting loop
Collect ==
    /\ lister.pc = "collect"
    /\ Len(lister.received) < lister.capacity
    /\ results # << >>
    /\ lister' = [lister EXCEPT !.received = Append(@, Head(results))]
    /\ results' = Tail(results)
    /\ UNCHANGED <<requestID, tSessionID, clientInit, readers, writer, gpc, glocal, wire, lockVars, closed>>
    /\ UNCHANGED <<workers, gwVars, srvVars>>

\* a ListAllTools that returns what it has received so far
ReturnWithoutWaiting ==
    /\ lister.pc = "collect"
    /\ lister' = [lister EXCEPT !.pc = "returned"]
    /\ last' = [op |-> "ListAllTools", pre |-> lister.pre,
                out |-> ListAllToolsDone([i \in 1..Len(lister.received) |-> lister.received[i].b],
                                         lister.received)]
    /\ UNCHANGED <<requestID, tSessionID, clientInit, readers, writer, gpc, glocal, wire, lockVars, closed>>
    /\ UNCHANGED <<workers, results, serverGateway, clients, regOrder, backend, srvVars>>

\* the loop has run len(clients) times: `return allTools, nil`
Return ==
    /\ lister.pc = "collect"
    /\ Len(lister.received) = lister.capacity
    /\ lister' = [lister EXCEPT !.pc = "returned"]
    /\ last' = [op |-> "ListAllTools", pre |-> lister.pre,
                out |-> ListAllToolsDone([i \in 1..Len(lister.received) |-> lister.received[i].b],
                                         lister.received)]
    /\ UNCHANGED <<requestID, tSessionID, clientInit, readers, writer, gpc, glocal, wire, lockVars, closed>>
    /\ UNCHANGED <<workers, results, serverGateway, clients, regOrder, backend, srvVars>>

NextFanOut ==
    \/ \E b \in Backends, p \in Prefixes : AddClient([name |-> b, prefix |-> p])
    \/ \E b \in Backends, beh \in FanOutBehaviours : BackendChanges(b, beh)
    \/ Snapshot
    \/ \E b \in Backends : WorkerCalls(b)
    \/ \E b \in Backends : WorkerListed(b)
    \/ \E b \in Backends : WorkerSends(b)
    \/ Collect
    \/ Return

SpecFanOut == Init /\ [][NextFanOut]_vars

(***************************************************************************)
(* generateSessionID on its own: called by goroutines that do not hold     *)
(* s.mu, each result stored in the session table as getOrCreateSession     *)
(* stores it.                                                              *)
(***************************************************************************)
\* a goroutine calls s.generateSessionID()
MintCall(r) ==
    /\ pc[r] = "idle"
    /\ pc' = [pc EXCEPT ![r] = "generateSessionID"]
    /\ UNCHANGED trVars
    /\ UNCHANGED <<serverGateway, clients, regOrder, backend, last, sessions, mu, clock, req, reply>>

\* time.Now().UnixNano() is read, the identifier is formatted, the deferred
\* Unlock runs, and `s.sessions[newSessionID] = session` stores the session
MintReturns(r, timestamp) ==
    /\ pc[r] = "timestamp"
    /\ mu = r
    /\ clock' = timestamp
    /\ last' = [op |-> "generateSessionID", r |-> r, pre |-> sessions,
                out |-> SessionIDOf(timestamp)]
    /\ sessions' = sessions \cup {last'.out}
    /\ mu' = 0
    /\ pc' = [pc EXCEPT ![r] = "idle"]
    /\ UNCHANGED trVars
    /\ UNCHANGED <<serverGateway, clients, regOrder, backend, req, reply>>

NextMint ==
    \/ \E r \in Requests : MintCall(r)
    \/ \E r \in Requests : Lock(r)
    \/ \E r \in Requests, timestamp \in clock..MaxClock : MintReturns(r, timestamp)

SpecMint == Init /\ [][NextMint]_vars

(***************************************************************************)
(* Gateway.mu: CallTool holds the read lock from its first line to its     *)
(* return, AddClient and CloseAll take the write lock.  A sync.RWMutex     *)
(* grants no read lock while a Lock() call is waiting.                     *)
(***************************************************************************)
NoWriter == [op |-> "none"]

\* the first backend is registered with the prefix, the others without
WriterOps ==
    {[op |-> "CloseAll"]}
        \cup {[op |-> "AddClient",
               c |-> [name |-> b, prefix |-> IF b = 1 THEN <<"p:">> ELSE << >>]] : b \in Backends}

\* the names called while the lock is observed
LockNames == {X, <<"p:", "x">>}

\* what the backends do while calls are in flight
LockBehaviours ==
    {[init |-> "ok", health |-> "up", tools |-> <<X, Y>>],
     [init |-> "ok", health |-> "down", tools |-> << >>]}

\* a goroutine calls Gateway.CallTool(name) and reaches g.mu.RLock()
CallToolBegins(g, name) ==
    /\ serverGateway
    /\ gwpc[g].pc = "idle"
    /\ gwpc[g].calls < MaxCalls
    /\ gwpc' = [gwpc EXCEPT ![g] = [pc |-> "rlock", calls |-> @.calls + 1, name |-> name]]
    /\ UNCHANGED <<requestID, tSessionID, clientInit, readers, writer, gpc, glocal, wire>>
    /\ UNCHANGED <<gmu, closed, fanVars, gwVars, srvVars>>

\* g.mu.RLock() is granted: no writer holds the mutex and none waits for it.
\* The two loops follow; `order` is the range order of the map.
GatewayRLock(g, order) ==
    /\ gwpc[g].pc = "rlock"
    /\ gmu.pending = NoWriter
    /\ gmu' = [gmu EXCEPT !.readers = @ \cup {g}]
    /\ gwpc' = [gwpc EXCEPT ![g] = [pc |-> "calling", calls |-> @.calls, name |-> @.name,
                                    pre |-> clients,
                                    out |-> GatewayCallTool(gwpc[g].name, order, order)]]
    /\ UNCHANGED <<requestID, tSessionID, clientInit, readers, writer, gpc, glocal, wire>>
    /\ UNCHANGED <<closed, fanVars, gwVars, srvVars>>

\* the backend calls of CallTool have returned; the deferred RUnlock runs
CallToolReturns(g) ==
    /\ gwpc[g].pc = "calling"
    /\ last' = [op |-> "CallTool", name |-> gwpc[g].name, pre |-> gwpc[g].pre,
                out |-> gwpc[g].out]
    /\ clients' = ApplyCalls(gwpc[g].out.calls)
    /\ gmu' = [gmu EXCEPT !.readers = @ \ {g}]
    /\ gwpc' = [gwpc EXCEPT ![g] = [pc |-> "idle", calls |-> @.calls]]
    /\ UNCHANGED <<requestID, tSessionID, clientInit, readers, writer, gpc, glocal, wire>>
    /\ UNCHANGED <<closed, fanVars, serverGateway, regOrder, backend, srvVars>>

\* a goroutine calls AddClient or CloseAll and reaches g.mu.Lock()
WriterBegins(w) ==
    /\ serverGateway
    /\ gmu.pending = NoWriter
    /\ gmu' = [gmu EXCEPT !.pending = w]
    /\ UNCHANGED <<requestID, tSessionID, clientInit, readers, writer, gpc, glocal, wire>>
    /\ UNCHANGED <<gwpc, closed, fanVars, gwVars, srvVars>>

\* g.mu.Lock() is granted once every read lock is released; AddClient or
\* CloseAll runs and its deferred Unlock follows.  CloseAll closes the
\* transports and changes nothing in the registry.
WriterRuns ==
    /\ gmu.pending # NoWriter
    /\ gmu.readers = {}
    /\ gmu' = [gmu EXCEPT !.pending = NoWriter]
    /\ IF gmu.pending.op = "AddClient"
       THEN /\ last' = [op |-> "AddClient", c |-> gmu.pending.c, pre |-> clients,
                        out |-> AddClientResult(gmu.pending.c)]
            /\ clients' = last'.out.clients
            /\ regOrder' = IF last'.out.err = NoErr THEN Append(regOrder, gmu.pending.c.name)
                           ELSE regOrder
            /\ backend' = IF last'.out.err = NoErr
                          THEN [b \in DOMAIN backend \cup {gmu.pending.c.name} |->
                                    IF b = gmu.pending.c.name THEN NewBackend ELSE backend[b]]
                          ELSE backend
            /\ UNCHANGED closed
       ELSE /\ last' = [op |-> "CloseAll", pre |-> clients]
            /\ closed' = closed \cup DOMAIN clients
            /\ UNCHANGED <<clients, regOrder, backend>>
    /\ UNCHANGED <<requestID, tSessionID, clientInit, readers, writer, gpc, glocal, wire>>
    /\ UNCHANGED <<gwpc, fanVars, serverGateway, srvVars>>

\* a backend starts answering differently while no call is in flight
BackendChangesIdle(b, beh) ==
    /\ \A g \in Goroutines : gwpc[g].pc # "calling"
    /\ BackendChanges(b, beh)

NextLock ==
    \/ \E g \in Goroutines, name \in LockNames : CallToolBegins(g, name)
    \/ \E g \in Goroutines, order \in Perms(DOMAIN clients) : GatewayRLock(g, order)
    \/ \E g \in Goroutines : CallToolReturns(g)
    \/ \E w \in WriterOps : WriterBegins(w)
    \/ WriterRuns
    \/ \E b \in Backends, beh \in LockBehaviours : BackendChangesIdle(b, beh)

SpecLock == Init /\ [][NextLock]_vars

(***************************************************************************)
(* tools/call with backends that host tools named as the local             *)
(* capabilities are.                                                       *)
(***************************************************************************)
DispatchBehaviours ==
    {[init |-> "ok", health |-> "up", tools |-> <<<<"echo">>, <<"google_pse_search">>>>],
     [init |-> "ok", health |-> "up", tools |-> <<X, Y>>],
     [init |-> "ok", health |-> "down", tools |-> << >>]}

NextDispatch ==
    \/ \E b \in Backends, p \in Prefixes : AddClient([name |-> b, prefix |-> p])
    \/ \E b \in Backends, beh \in DispatchBehaviours : BackendChanges(b, beh)
    \/ \E params \in CallParams, order \in Perms(DOMAIN clients), pse \in PSEOutcomes :
            ToolsCall(params, order, order, pse)

SpecDispatch == Init /\ [][NextDispatch]_vars

(***************************************************************************)
(* tools/list over backends in every condition.                            *)
(***************************************************************************)
\* the tools/list handler, Gateway.ListAllTools included
ToolsList(order) ==
    /\ last' = [op |-> "tools/list", pre |-> clients,
                out |-> handleToolsList(serverGateway, order)]
    /\ clients' = ApplyCalls(last'.out.gw.calls)
    /\ UNCHANGED trVars
    /\ UNCHANGED <<serverGateway, regOrder, backend, sessions, mu, clock, pc, req, reply>>

NextToolsList ==
    \/ \E b \in Backends, p \in Prefixes : AddClient([name |-> b, prefix |-> p])
    \/ \E b \in Backends, beh \in Behaviours : BackendChanges(b, beh)
    \/ \E order \in Perms(DOMAIN clients) : ToolsList(order)

SpecToolsList == Init /\ [][NextToolsList]_vars

(***************************************************************************)
(* tools/call requests put to handleMCP with two backends behind the       *)
(* Gateway.                                                                *)
(***************************************************************************)
CallRequests ==
    {[method |-> "POST", session |-> SessionIDOf(1), accept |-> <<"application/json">>,
      body |-> [ok |-> TRUE, jsonrpc |-> "2.0", method |-> "tools/call",
                params |-> [nil |-> FALSE, m |-> [name |-> Str(n)]],
                id |-> NumberID(FALSE, 7)]] : n \in CallNames}

NextTranslate ==
    \/ \E b \in Backends, p \in Prefixes : AddClient([name |-> b, prefix |-> p])
    \/ \E b \in Backends, beh \in Behaviours : BackendChanges(b, beh)
    \/ \E request \in CallRequests, order \in Perms(DOMAIN clients), pse \in PSEOutcomes :
            ServeBody(request, SessionIDOf(1), order, pse)

SpecTranslate == Init /\ [][NextTranslate]_vars

(***************************************************************************)
(* One BackendClient: ListTools, then CallTool with a name it listed.      *)
(***************************************************************************)
\* the tool names a transport reports: plain ones, one that begins with the
\* prefix, and the empty name, which nothing in the transport rejects
RoundTripBehaviours ==
    {[init |-> "ok", health |-> "up", tools |-> l] :
        l \in {<<X, Y>>, << <<"p:", "x">>, X >>, << << >>, X >>}}

\* MCPClient.ListTools on the client registered as b
ListToolsOn(b) ==
    /\ b \in DOMAIN clients
    /\ last' = [op |-> "ListTools", b |-> b, pre |-> clients,
                out |-> ClientListTools(b, clients[b])]
    /\ clients' = ApplyCalls(<<last'.out>>)
    /\ UNCHANGED trVars
    /\ UNCHANGED <<serverGateway, regOrder, backend, sessions, mu, clock, pc, req, reply>>

\* MCPClient.CallTool on the same client with the i-th name ListTools has
\* just returned
CallListedTool(b, i) ==
    /\ last.op = "ListTools"
    /\ last.b = b
    /\ last.out.err = NoErr
    /\ i \in 1..Len(last.out.tools)
    /\ last' = [op |-> "CallTool", b |-> b, i |-> i, pre |-> clients,
                name |-> last.out.tools[i].name,
                out |-> ClientCallTool(b, clients[b], last.out.tools[i].name)]
    /\ clients' = ApplyCalls(<<last'.out>>)
    /\ UNCHANGED trVars
    /\ UNCHANGED <<serverGateway, regOrder, backend, sessions, mu, clock, pc, req, reply>>

NextRoundTrip ==
    \/ \E b \in Backends, p \in Prefixes : AddClient([name |-> b, prefix |-> p])
    \/ \E b \in Backends, beh \in RoundTripBehaviours : BackendChanges(b, beh)
    \/ \E b \in Backends : ListToolsOn(b)
    \/ \E b \in Backends, i \in 1..2 : CallListedTool(b, i)

SpecRoundTrip == Init /\ [][NextRoundTrip]_vars

(***************************************************************************)
(* parseStreamableHTTPResponse: the choice between the event-stream parser *)
(* and the plain decoder, and json.Unmarshal of what was chosen.           *)
(***************************************************************************)
MaxStreamLines == 3    \* lines of a response body put to parseStreamableHTTPResponse

ContentTypes == {<<"application/json">>, <<"text/event-stream">>}

StreamLines ==
    {Line(<<"data: ", "{a">>), Line(<<"data: ", "b}">>), Line(<<"data: ", "{a}">>),
     Line(<<"data:", "{c}">>), Line(<<"event: ", "message">>), BlankLine,
     Line(<<"{plain}">>), Line(<<"oops">>)}

StreamBodies == UNION {[1..n -> StreamLines] : n \in 1..MaxStreamLines}

\* the texts that are one JSON document, line feeds around them aside
JSONDocuments == {<<"{a}">>, <<"{c}">>, <<"{plain}">>, <<"{a", "b}">>}

NotLineFeed(t) == t # "\n"

\* json.Unmarshal(data, target): the document decoded, or an error
jsonUnmarshal(data) ==
    IF SelectSeq(data, NotLineFeed) \in JSONDocuments
    THEN [target |-> SelectSeq(data, NotLineFeed), err |-> NoErr]
    ELSE [target |-> << >>, err |-> <<"invalid", "character">>]

\* bytes.HasPrefix(bodyBytes, "event:") || bytes.HasPrefix(bodyBytes, "data:")
LooksLikeSSE(body) ==
    /\ body # << >>
    /\ body[1].text # << >>
    /\ body[1].text[1] \in {"event:", "event: ", "data:", "data: "}

isSSE(contentType, body) ==
    Contains(contentType, <<"text/event-stream">>) \/ LooksLikeSSE(body)

\* the streamed branch once parseSSEResponse has returned p
DecodeStreamed(p) ==
    IF p.err # NoErr
    THEN [target |-> << >>, err |-> <<"failed", "to", "parse", "SSE", "response:">> \o p.err]
    ELSE jsonUnmarshal(p.doc)

\* the plain branch once json.Unmarshal of the whole body has returned u
DecodePlain(body, u) ==
    IF u.err # NoErr /\ LooksLikeSSE(body) /\ parseSSEResponse(body).err = NoErr
    THEN jsonUnmarshal(parseSSEResponse(body).doc)
    ELSE u

parseStreamableHTTPResponse(contentType, body) ==
    IF isSSE(contentType, body) THEN DecodeStreamed(parseSSEResponse(body))
    ELSE DecodePlain(body, jsonUnmarshal(BodyBytes(body, 1)))

\* parseStreamableHTTPResponse applied to a response
ParseStreamable(contentType, body) ==
    /\ last' = [op |-> "parseStreamableHTTPResponse", contentType |-> contentType,
                body |-> body, out |-> parseStreamableHTTPResponse(contentType, body)]
    /\ UNCHANGED trVars
    /\ UNCHANGED <<serverGateway, clients, regOrder, backend, sessions, mu, clock, pc, req,
                   reply>>

NextStreamable ==
    \E contentType \in ContentTypes, body \in StreamBodies : ParseStreamable(contentType, body)

SpecStreamable == Init /\ [][NextStreamable]_vars

(***************************************************************************)
(* Gateway.CloseAll and the operations that follow it.  Close is a method  *)
(* of the Client interface and may return an error; MCPClient.Close passes *)
(* on what its transport's Close returns and writes nothing to the client. *)
(***************************************************************************)
CloseOutcomes == {NoErr, <<"connection", "reset">>}

\* what the backends do around a CloseAll
CloseBehaviours ==
    {[init |-> "ok", health |-> "up", tools |-> <<X, Y>>],
     [init |-> "ok", health |-> "down", tools |-> << >>],
     [init |-> "500", health |-> "up", tools |-> <<X, Y>>]}

\* the names called once the backends are closed
CloseNames == {X, <<"p:", "x">>, <<"z">>}

\* MCPClient.Close on the client of backend b, its transport answering err
ClientClose(b, err) == [b |-> b, err |-> err]

\* the error CloseAll returns for the errors it has collected
CloseAllError(errors) ==
    IF Len(errors) > 0
    THEN <<"errors", "closing", "clients", ":">> \o JoinErrors(errors)
    ELSE NoErr

\* a CloseAll that returns at the first Close that fails
CloseAllStopping(order, calls) ==
    IF \E k \in 1..Len(calls) : calls[k].err # NoErr
    THEN LET k == CHOOSE k \in 1..Len(calls) :
                    calls[k].err # NoErr /\ \A j \in 1..(k - 1) : calls[j].err = NoErr
         IN  [order |-> order, calls |-> SubSeq(calls, 1, k),
              err |-> CloseAllError(InitErrors(SubSeq(calls, 1, k), 1))]
    ELSE [order |-> order, calls |-> calls, err |-> NoErr]

CloseAllDone(order, calls) ==
    [order |-> order, calls |-> calls, err |-> CloseAllError(InitErrors(calls, 1))]

\* CloseAll, the map being ranged over in `order`; closeErr is what each
\* client's Close returns
GatewayCloseAll(order, closeErr) ==
    CloseAllDone(order, [i \in 1..Len(order) |-> ClientClose(order[i], closeErr[order[i]])])

\* a Close that clears the client's initialized flag
ClientsReset(calls) ==
    [b \in DOMAIN clients |->
        IF \E i \in 1..Len(calls) : calls[i].b = b
        THEN [clients[b] EXCEPT !.initialized = FALSE]
        ELSE clients[b]]

\* the registry after CloseAll has made the Close calls: nothing is deleted
\* from the map and Close assigns to no field of a client
ClientsAfterClose(calls) == clients

\* Gateway.GetClient(name)
GetClient(b) ==
    IF b \in DOMAIN clients THEN [c |-> clients[b], ok |-> TRUE]
    ELSE [c |-> [prefix |-> << >>, initialized |-> FALSE], ok |-> FALSE]

\* Gateway.CloseAll
CloseAll(order, closeErr) ==
    /\ serverGateway
    /\ last' = [op |-> "CloseAll", pre |-> clients, closeErr |-> closeErr,
                out |-> GatewayCloseAll(order, closeErr)]
    /\ clients' = ClientsAfterClose(last'.out.calls)
    /\ closed' = closed \cup {last'.out.calls[i].b : i \in 1..Len(last'.out.calls)}
    /\ UNCHANGED <<requestID, tSessionID, clientInit, readers, writer, gpc, glocal, wire,
                   fanVars, lockVars>>
    /\ UNCHANGED <<serverGateway, regOrder, backend, sessions, mu, clock, pc, req, reply>>

\* Gateway.CallTool(name)
CallTool(name, scanOrder, trialOrder) ==
    /\ serverGateway
    /\ last' = [op |-> "CallTool", name |-> name, pre |-> clients,
                out |-> GatewayCallTool(name, scanOrder, trialOrder)]
    /\ clients' = ApplyCalls(last'.out.calls)
    /\ UNCHANGED trVars
    /\ UNCHANGED <<serverGateway, regOrder, backend, sessions, mu, clock, pc, req, reply>>

NextClose ==
    \/ \E b \in Backends, p \in Prefixes : AddClient([name |-> b, prefix |-> p])
    \/ \E b \in Backends, beh \in CloseBehaviours : BackendChanges(b, beh)
    \/ \E order \in Perms(DOMAIN clients), closeErr \in [DOMAIN clients -> CloseOutcomes] :
            CloseAll(order, closeErr)
    \/ \E order \in Perms(DOMAIN clients) : ListAllTools(order)
    \/ \E name \in CloseNames, order \in Perms(DOMAIN clients) : CallTool(name, order, order)

SpecClose == Init /\ [][NextClose]_vars

(***************************************************************************)
(* Properties of the Gateway                                               *)
(***************************************************************************)
\* the tool name of the latest tools/call, when it reached the Gateway
LastName == last.params.m["name"].v
LastGatewayCall == last.op = "tools/call" /\ last.out.gw.phase # "none"

\* what client b returns for the name of the latest tools/call, from the
\* registry the call found
OutcomeAt(b) == ClientCallTool(b, last.pre[b], LastName)

\* the backend answered the tools/call of client call r with HTTP 404
AnsweredNotFound(r) ==
    \E i \in 1..Len(r.log) : r.log[i].op = "CallTool" /\ r.log[i].http.status = "404"

NoDuplicates(seq) == \A i, j \in 1..Len(seq) : seq[i] = seq[j] => i = j

\* C1: AddClient with a registered name returns an error and leaves the
\* registry as it was; with a new name it inserts the client and returns no
\* error; so the names registered by the successful AddClient calls are
\* pairwise different and are the names of the registry.
C1_AddClient ==
    /\ last.op = "AddClient" =>
         IF last.c.name \in DOMAIN last.pre
         THEN last.out.err # NoErr /\ clients = last.pre
         ELSE /\ last.out.err = NoErr
              /\ DOMAIN clients = DOMAIN last.pre \cup {last.c.name}
              /\ clients[last.c.name] = [prefix |-> last.c.prefix, initialized |-> FALSE]
              /\ \A b \in DOMAIN last.pre : clients[b] = last.pre[b]
    /\ NoDuplicates(regOrder)
    /\ {regOrder[i] : i \in 1..Len(regOrder)} = DOMAIN clients

\* C1 witness: an AddClient for a registered name, with another prefix
C1_Witness ==
    /\ last.op = "AddClient"
    /\ last.c.name \in DOMAIN last.pre
    /\ last.c.prefix # last.pre[last.c.name].prefix
    /\ Len(regOrder) = 2

\* C2: ListAllTools returns no error, asks every registered backend once,
\* and its result holds each tool of each backend whose ListTools succeeded
\* as often as those backends returned it, and nothing else.
C2_ListAllTools ==
    last.op = "ListAllTools" =>
        LET out == last.out
            ok == {i \in 1..Len(out.calls) : out.calls[i].err = NoErr}
            returned == UNION {{<<i, j>> : j \in 1..Len(out.calls[i].tools)} : i \in ok}
        IN  /\ out.err = NoErr
            /\ {out.calls[i].b : i \in 1..Len(out.calls)} = DOMAIN last.pre
            /\ Len(out.calls) = Cardinality(DOMAIN last.pre)
            /\ Len(out.tools) = Cardinality(returned)
            /\ \A p \in returned :
                  Cardinality({k \in 1..Len(out.tools) :
                                  out.tools[k] = out.calls[p[1]].tools[p[2]]})
                  = Cardinality({q \in returned :
                                  out.calls[q[1]].tools[q[2]] = out.calls[p[1]].tools[p[2]]})
            /\ \A i \in 1..Len(out.calls) :
                  (backend[out.calls[i].b].health # "up"
                   \/ (~last.pre[out.calls[i].b].initialized
                       /\ backend[out.calls[i].b].init # "ok"))
                  => out.calls[i].err # NoErr

\* C2 witness: one backend fails, the other one returns tools
C2_Witness ==
    /\ last.op = "ListAllTools"
    /\ \E i, j \in 1..Len(last.out.calls) :
          /\ last.out.calls[i].err # NoErr
          /\ last.out.calls[j].err = NoErr
          /\ Len(last.out.calls[j].tools) = 2
    /\ Len(last.out.tools) = 2

\* C3: CallTool with a name that begins with the non-empty prefix of a
\* registered backend calls one backend only, one whose prefix begins the
\* name, and returns what that backend returns, success or error; the
\* Gateway's own not-found error is not returned.
C3_PrefixRouting ==
    (LastGatewayCall /\ \E b \in DOMAIN last.pre : PrefixMatches(b, LastName)) =>
        LET gw == last.out.gw IN
        /\ Len(gw.calls) = 1
        /\ PrefixMatches(gw.calls[1].b, LastName)
        /\ gw.calls[1] = OutcomeAt(gw.calls[1].b)
        /\ gw.resp = gw.calls[1].resp
        /\ gw.err = gw.calls[1].err
        /\ gw.err # GatewayNotFound(LastName)

\* C3 witness: the owning backend fails with not-found while another
\* backend is registered
C3_Witness ==
    /\ LastGatewayCall
    /\ Cardinality(DOMAIN last.pre) = 2
    /\ \E b \in DOMAIN last.pre : PrefixMatches(b, LastName)
    /\ last.out.gw.err # NoErr
    /\ AnsweredNotFound(last.out.gw.calls[1])

\* C4: in the trial phase a backend that answers not-found does not end the
\* call: when the backends before position k of the trial order answer
\* not-found and the one at k succeeds, the result is the success of k and
\* no backend after k is called.
C4_TrialContinues ==
    (LastGatewayCall /\ last.out.gw.phase = "trial") =>
        LET gw == last.out.gw IN
        \A k \in 1..Len(gw.order) :
            (/\ OutcomeAt(gw.order[k]).err = NoErr
             /\ \A j \in 1..(k - 1) : AnsweredNotFound(OutcomeAt(gw.order[j])))
            => /\ gw.err = NoErr
               /\ gw.resp = OutcomeAt(gw.order[k]).resp
               /\ Len(gw.calls) = k
               /\ \A j \in 1..k : gw.calls[j].b = gw.order[j]

\* C4 witness: the first backend tried answers not-found, the second succeeds
C4_Witness ==
    /\ LastGatewayCall
    /\ last.out.gw.phase = "trial"
    /\ Len(last.out.gw.calls) = 2
    /\ AnsweredNotFound(last.out.gw.calls[1])
    /\ last.out.gw.err = NoErr

\* C5: in the trial phase a failure other than tool-not-found ends the call:
\* when the backends before position k of the trial order answer not-found
\* and the one at k fails in another way, the error of k is returned and no
\* backend after k is called; every backend after which the trial went on
\* had answered not-found.
C5_TrialAborts ==
    (LastGatewayCall /\ last.out.gw.phase = "trial") =>
        LET gw == last.out.gw IN
        /\ \A k \in 1..Len(gw.order) :
              (/\ OutcomeAt(gw.order[k]).err # NoErr
               /\ ~AnsweredNotFound(OutcomeAt(gw.order[k]))
               /\ \A j \in 1..(k - 1) : AnsweredNotFound(OutcomeAt(gw.order[j])))
              => gw.err = OutcomeAt(gw.order[k]).err /\ Len(gw.calls) = k
        /\ \A i \in 1..(Len(gw.calls) - 1) : AnsweredNotFound(gw.calls[i])

\* C5 witness: the first backend tried answers 500 with a body that holds
\* the words "not found", and a second backend is tried
C5_Witness ==
    /\ LastGatewayCall
    /\ last.out.gw.phase = "trial"
    /\ Len(last.out.gw.calls) = 2
    /\ \E i \in 1..Len(last.out.gw.calls[1].log) :
          /\ last.out.gw.calls[1].log[i].op = "CallTool"
          /\ last.out.gw.calls[1].log[i].http.status = "500"

\* C6: the trial phase tries the backends in registration order: the i-th
\* backend called is the i-th backend registered.
C6_RegistrationOrder ==
    (LastGatewayCall /\ last.out.gw.phase = "trial") =>
        \A i \in 1..Len(last.out.gw.calls) : last.out.gw.calls[i].b = regOrder[i]

\* C6 witness: both backends would succeed and the one registered second
\* is tried first and answers
C6_Witness ==
    /\ LastGatewayCall
    /\ last.out.gw.phase = "trial"
    /\ Len(regOrder) = 2
    /\ OutcomeAt(regOrder[1]).err = NoErr
    /\ OutcomeAt(regOrder[2]).err = NoErr
    /\ last.out.gw.calls[1].b = regOrder[2]
    /\ last.out.gw.err = NoErr

\* C7: a tools/call for a name that is no local capability, begins with no
\* backend's prefix and is answered not-found by every registered backend
\* (none registered and no gateway included) returns no result and the
\* error `tool '<name>' not found`.
C7_TerminalNotFound ==
    (/\ last.op = "tools/call"
     /\ ~last.params.nil
     /\ IsString(last.params.m, "name")
     /\ LastName \notin LocalNames
     /\ \/ last.out.gw.phase = "none"
        \/ /\ \A b \in DOMAIN last.pre : ~PrefixMatches(b, LastName)
           /\ \A b \in DOMAIN last.pre : AnsweredNotFound(OutcomeAt(b)))
    => /\ last.out.err = <<"tool">> \o Quote(LastName) \o NotFoundText
       /\ last.out.result = NoResult

\* C7 witness: two backends are registered and both answer not-found
C7_Witness ==
    /\ LastGatewayCall
    /\ Cardinality(DOMAIN last.pre) = 2
    /\ \A b \in DOMAIN last.pre : ~PrefixMatches(b, LastName)
    /\ \A b \in DOMAIN last.pre : AnsweredNotFound(OutcomeAt(b))
    /\ Len(last.out.gw.calls) = 2

\* the client calls made by the latest Gateway operation
LastCalls ==
    IF last.op \in {"InitializeAll", "ListAllTools"} THEN last.out.calls
    ELSE IF last.op = "tools/call" THEN last.out.gw.calls
    ELSE << >>

InitializeCount(r) == Cardinality({i \in 1..Len(r.log) : r.log[i].op = "Initialize"})
InitializeFailed(r) == r.log[1].http.net = "err" \/ r.log[1].http.status # "200"

\* C8: a client call on a client that is not initialized calls
\* Transport.Initialize first and once; on an initialized client it does not
\* call it; when the attempt fails the call returns an error without a
\* transport operation and the client stays uninitialized (so that its next
\* call attempts again); when it succeeds the client is initialized, and an
\* initialized client stays so.
C8_LazyInitialization ==
    /\ \A i \in 1..Len(LastCalls) :
          LET r == LastCalls[i] IN
          /\ r.wasInit = last.pre[r.b].initialized
          /\ r.wasInit => InitializeCount(r) = 0
          /\ ~r.wasInit =>
                /\ InitializeCount(r) = 1
                /\ r.log[1].op = "Initialize"
                /\ IF InitializeFailed(r)
                   THEN Len(r.log) = 1 /\ r.err # NoErr /\ ~clients[r.b].initialized
                   ELSE clients[r.b].initialized
                        /\ (last.op # "InitializeAll" => Len(r.log) = 2)
    /\ last.op # "none" =>
          \A b \in DOMAIN last.pre : last.pre[b].initialized => clients[b].initialized

\* C8 witness: the attempt of an uninitialized client fails, next to a
\* client that is initialized and is not initialized again
C8_Witness ==
    /\ last.op = "ListAllTools"
    /\ \E i, j \in 1..Len(LastCalls) :
          /\ ~LastCalls[i].wasInit
          /\ InitializeFailed(LastCalls[i])
          /\ LastCalls[j].wasInit
          /\ Len(LastCalls[j].log) = 1

(***************************************************************************)
(* Properties of the JSON-RPC endpoint                                     *)
(***************************************************************************)
\* the session header of request r names no session of the table
NamesNoSession(r) == req[r].session = << >> \/ req[r].session \notin sessions

\* C9: a POST whose session header is absent or names no session is
\* answered with a newly minted identifier, not the supplied one; a POST
\* whose header names a session is answered with that identifier and adds
\* no session to the table.
C9_Sessions ==
    /\ \A r \in Requests :
          (pc[r] = "getOrCreateSession" /\ NamesNoSession(r))
          ~> (/\ pc[r] = "done"
              /\ reply[r].status = "200"
              /\ reply[r].session \in sessions \ {req[r].session})
    /\ [][\A r \in Requests :
            (pc[r] = "lookup" /\ ~NamesNoSession(r) /\ pc'[r] = "done")
            => (reply'[r].session = req[r].session /\ sessions' = sessions)]_vars

\* C9 witness: a handler that found no session waits in generateSessionID
\* for the mutex it holds itself
C9_Witness ==
    \E r \in Requests :
        pc[r] = "generateSessionID" /\ mu = r /\ req[r].session = << >> /\ sessions = {}

\* the Accept header asks for the event-stream framing
EventStreamAsked(accept) ==
    \/ accept = << >>
    \/ accept = <<"*/*">>
    \/ accept = <<"text/event-stream">>
    \/ ~Contains(accept, <<"application/json">>)

\* C10: every reply to a POST, success or error envelope, parse failure and
\* invalid request included, is framed as an event block when the Accept
\* header is absent, is */*, is text/event-stream or does not contain
\* application/json, and as a plain JSON document otherwise.
C10_Framing ==
    last.op = "handleMCP" =>
        last.out.framing = (IF EventStreamAsked(last.r.accept) THEN "sse" ELSE "json")

\* C10 witness: the reply to an unparseable body sent without an Accept
\* header is a plain JSON document
C10_Witness ==
    /\ last.op = "handleMCP"
    /\ ~last.r.body.ok
    /\ last.r.accept = << >>
    /\ last.out.envelope.code = ParseErrorCode
    /\ last.out.framing = "json"

\* the latest operation is the handler applied to a request
LastHandled == last.op = "handleMCP"
KnownMethods == {"initialize", "tools/list", "tools/call"}

\* C11: a malformed body yields the parse-failure code; a parsed body whose
\* version tag is missing or not "2.0" the invalid-request code, whatever its
\* method; a method other than the three known ones the method-not-found
\* code, with no Gateway operation; a failure returned by a handler the
\* server-error code with the error's message; anything else no error.  The
\* four codes are pairwise different.
C11_ErrorCodes ==
    /\ Cardinality({ParseErrorCode, InvalidRequestCode, MethodNotFoundCode,
                    ServerErrorCode, 0}) = 5
    /\ LastHandled =>
         LET body == last.r.body
             env == last.out.envelope
         IN  IF ~body.ok THEN env.code = ParseErrorCode /\ last.out.gw = NoGatewayCall
             ELSE IF body.jsonrpc # "2.0"
             THEN env.code = InvalidRequestCode /\ last.out.gw = NoGatewayCall
             ELSE IF body.method \notin KnownMethods
             THEN /\ env.code = MethodNotFoundCode
                  /\ last.out.gw = NoGatewayCall
                  /\ last.out.herr = NoErr
                  /\ clients = last.pre
             ELSE IF last.out.herr # NoErr
             THEN env.code = ServerErrorCode /\ env.message = last.out.herr
             ELSE env.code = 0

\* C11 witness: a tools/call without params fails in its handler and is
\* answered with the server-error code and the handler's message
C11_Witness ==
    /\ LastHandled
    /\ last.r.body.method = "tools/call"
    /\ last.out.herr = <<"missing", "params">>
    /\ last.out.envelope.code = ServerErrorCode
    /\ last.out.envelope.message = <<"missing", "params">>

\* C12: every envelope for a parsed request carries the version tag "2.0"
\* and the id of the request unchanged, null for a null (or absent) id, on
\* the success path and on every error path; the envelope for an
\* unparseable body carries a null id.
C12_IdEchoed ==
    LastHandled =>
        /\ last.out.envelope.jsonrpc = "2.0"
        /\ last.out.envelope.id =
              (IF ~last.r.body.ok \/ last.r.body.id = AbsentID THEN NullID
               ELSE last.r.body.id)

\* C12 witness: the request's id is the number 2^53 + 1 and the response's
\* id is 2^53
C12_Witness ==
    /\ LastHandled
    /\ last.r.body.ok
    /\ last.r.body.id = NumberID(TRUE, 1)
    /\ last.out.envelope.id = NumberID(TRUE, 0)

(***************************************************************************)
(* C13: the local echo capability returns its message argument unchanged   *)
(* for every string value, the empty string included, and fails when the   *)
(* message is missing or is not a string; a tools/call for echo that       *)
(* succeeds yields exactly one content item of kind "text" whose text is   *)
(* the message, and the Gateway is not consulted.                          *)
(***************************************************************************)
EchoRequired == <<"message", "argument", "is", "required", "and", "must", "be", "a", "string">>

LastEcho ==
    /\ last.op = "tools/call"
    /\ ~last.params.nil
    /\ IsString(last.params.m, "name")
    /\ last.params.m["name"].v = <<"echo">>

LastArguments ==
    IF IsObject(last.params.m, "arguments") THEN last.params.m["arguments"].v ELSE EmptyMap

C13_Echo ==
    /\ \A a \in EchoArgs \cup {EmptyMap} :
          IF "message" \in DOMAIN a /\ a["message"].kind = "string"
          THEN CallEcho(a) = [text |-> a["message"].v, err |-> NoErr]
          ELSE CallEcho(a).err = EchoRequired
    /\ LastEcho =>
          /\ last.out.gw = NoGatewayCall
          /\ clients = last.pre
          /\ IF "message" \in DOMAIN LastArguments /\ LastArguments["message"].kind = "string"
             THEN /\ last.out.err = NoErr
                  /\ last.out.result.content =
                        <<[type |-> "text", text |-> LastArguments["message"].v]>>
             ELSE /\ last.out.err = EchoRequired
                  /\ last.out.result = NoResult

C13_Witness ==
    /\ LastEcho
    /\ LastArguments = [message |-> Str(<< >>)]
    /\ last.out.err = NoErr
    /\ last.out.result.content = <<[type |-> "text", text |-> << >>]>>

(***************************************************************************)
(* Properties of the Transport                                             *)
(***************************************************************************)
LastParsed == last.op = "parseSSEResponse"

IsDataLine(line) == HasPrefix(line.text, <<"data: ">>)

\* the blocks of a body, a block being the lines between two blank lines:
\* each block's document (the payloads of its data lines, concatenated in
\* order), cur being the document of the block that line i belongs to
RECURSIVE BlockDocuments(_, _, _)
BlockDocuments(lines, i, cur) ==
    IF i > Len(lines) THEN <<cur>>
    ELSE IF lines[i].text = << >> THEN <<cur>> \o BlockDocuments(lines, i + 1, << >>)
    ELSE IF IsDataLine(lines[i]) THEN BlockDocuments(lines, i + 1, cur \o Tail(lines[i].text))
    ELSE BlockDocuments(lines, i + 1, cur)

NonEmpty(doc) == doc # << >>

\* the documents of the blocks that carry one
Documents(lines) == SelectSeq(BlockDocuments(lines, 1, << >>), NonEmpty)

\* C14: parseSSEResponse concatenates, in order, the payloads of all the data
\* lines of a block into one document, a block ends at a blank line, and for
\* a body with one or more blocks it returns the document of the first
\* block, whatever the later blocks contain.
C14_FirstBlock ==
    (LastParsed /\ Documents(last.body) # << >>) =>
        last.out = [doc |-> Documents(last.body)[1], err |-> NoErr]

\* one block whose two data lines have an event line between them: the
\* document returned is the first data line's payload only
C14_Witness ==
    /\ LastParsed
    /\ last.body = <<Line(<<"data: ", "{a">>), Line(<<"event: ", "message">>),
                     Line(<<"data: ", "b}">>), BlankLine>>
    /\ Documents(last.body) = << <<"{a", "b}">> >>
    /\ last.out = [doc |-> <<"{a">>, err |-> NoErr]

(***************************************************************************)
(* Properties of the BackendClient                                         *)
(***************************************************************************)
\* C15: ListTools returns the transport's tools, in the transport's order,
\* with the configured prefix prepended exactly once to every name, and with
\* the names as they are when the prefix is empty; on every call, the first
\* one of a client and the later ones.
C15_PrefixOnce ==
    last.op = "ListAllTools" =>
        \A k \in 1..Len(last.out.calls) :
            LET r == last.out.calls[k]
                served == backend[r.b].tools
                prefix == last.pre[r.b].prefix
            IN  r.err = NoErr =>
                    /\ Len(r.tools) = Len(served)
                    /\ \A i \in 1..Len(served) :
                          /\ r.tools[i].name = prefix \o served[i]
                          /\ r.tools[i].description = ToolOf(r.b, served[i]).description
                    /\ prefix = << >> =>
                          r.tools = [i \in 1..Len(served) |-> ToolOf(r.b, served[i])]

\* a client with a prefix lists the tools x and y on a call that is not its
\* first one
C15_Witness ==
    /\ last.op = "ListAllTools"
    /\ \E k \in 1..Len(last.out.calls) :
          /\ last.out.calls[k].wasInit
          /\ last.out.calls[k].err = NoErr
          /\ last.pre[last.out.calls[k].b].prefix = <<"p:">>
          /\ backend[last.out.calls[k].b].tools = <<X, Y>>
          /\ last.out.calls[k].tools[1].name = <<"p:", "x">>
          /\ last.out.calls[k].tools[2].name = <<"p:", "y">>

\* the names the transport was given by the client calls of the latest
\* tools/call: <<backend, name>> for every CallTool of a transport
Forwarded ==
    UNION {{<<last.out.gw.calls[k].b, last.out.gw.calls[k].log[i].name>> :
                i \in {j \in 1..Len(last.out.gw.calls[k].log) :
                         last.out.gw.calls[k].log[j].op = "CallTool"}} :
            k \in 1..Len(last.out.gw.calls)}

\* C16: CallTool forwards to the transport the incoming name without the
\* configured prefix for every incoming name that begins with the non-empty
\* prefix, and the incoming name as it is for every other name and when the
\* prefix is empty.
C16_PrefixStripped ==
    LastGatewayCall =>
        \A f \in Forwarded :
            LET prefix == last.pre[f[1]].prefix IN
            f[2] = IF prefix # << >> /\ HasPrefix(LastName, prefix)
                   THEN SubSeq(LastName, Len(prefix) + 1, Len(LastName))
                   ELSE LastName

\* the incoming name is the prefix itself and the transport is given the
\* prefix, not the empty name
C16_Witness ==
    /\ LastGatewayCall
    /\ LastName = <<"p:">>
    /\ \E f \in Forwarded : last.pre[f[1]].prefix = <<"p:">> /\ f[2] = <<"p:">>

\* C17: InitializeAll calls Initialize on every registered backend, whatever
\* the others do; it returns no error exactly when all of them succeeded, and
\* otherwise one error that names every backend that failed together with its
\* cause; the backends that succeeded are initialized afterwards.
C17_InitializeAll ==
    last.op = "InitializeAll" =>
        LET calls == last.out.calls
            failed == {k \in 1..Len(calls) : calls[k].err # NoErr}
        IN  /\ Len(calls) = Cardinality(DOMAIN last.pre)
            /\ {calls[k].b : k \in 1..Len(calls)} = DOMAIN last.pre
            /\ \A k \in 1..Len(calls) : calls[k] = ClientInitialize(calls[k].b, last.pre[calls[k].b])
            /\ (last.out.err = NoErr) <=> (failed = {})
            /\ \A k \in failed :
                  /\ Contains(last.out.err, <<NameOf[calls[k].b], ":">> \o calls[k].err)
                  /\ ~last.pre[calls[k].b].initialized
                  /\ backend[calls[k].b].init # "ok"
            /\ \A k \in 1..Len(calls) :
                  k \notin failed => clients[calls[k].b].initialized

\* two backends fail for different causes and the error names both
C17_Witness ==
    /\ last.op = "InitializeAll"
    /\ Len(last.out.calls) = 2
    /\ last.out.calls[1].err # NoErr
    /\ last.out.calls[2].err # NoErr
    /\ last.out.calls[1].err # last.out.calls[2].err
    /\ Contains(last.out.err, <<NameOf[last.out.calls[2].b], ":">> \o last.out.calls[2].err)

\* one backend fails, the other one is initialized by the same InitializeAll
InitializeAllPartial ==
    /\ last.op = "InitializeAll"
    /\ \E j, k \in 1..Len(last.out.calls) :
          /\ last.out.calls[j].err # NoErr
          /\ last.out.calls[k].err = NoErr
          /\ ~last.out.calls[k].wasInit
          /\ clients[last.out.calls[k].b].initialized
    /\ last.out.err # NoErr

\* in the registry the latest operation found, b cannot initialize / b is
\* initialized or can initialize, is up and hosts the tool named n
CannotInitialize(b) == ~last.pre[b].initialized /\ backend[b].init # "ok"
Serves(b, n) ==
    /\ last.pre[b].initialized \/ backend[b].init = "ok"
    /\ backend[b].health = "up"
    /\ Hosts(b, n)

\* C18: a failure to initialize stays with its backend.  With a backend B1
\* whose initialization fails and a backend B2 that initializes and exposes
\* a tool t whose name matches no prefix, ListAllTools returns the tools of
\* B2 and CallTool(t) is answered by B2, in whatever order the two are
\* registered or visited.
C18_Isolation ==
    /\ last.op = "ListAllTools" =>
          \A j, k \in 1..Len(last.out.calls) :
              (/\ CannotInitialize(last.out.calls[j].b)
               /\ last.out.calls[k].err = NoErr)
              => \A i \in 1..Len(last.out.calls[k].tools) :
                    \E m \in 1..Len(last.out.tools) :
                        last.out.tools[m] = last.out.calls[k].tools[i]
    /\ LastGatewayCall =>
          \A b1, b2 \in DOMAIN last.pre :
              (/\ b1 # b2
               /\ CannotInitialize(b1)
               /\ Serves(b2, LastName)
               /\ ~\E b \in DOMAIN last.pre : PrefixMatches(b, LastName))
              => /\ last.out.gw.err = NoErr
                 /\ last.out.gw.resp = ContentOf(b2, LastName)

\* B1 answers the initialization with a 500 and is visited first: the call
\* for x, which B2 hosts, ends with B1's error and B2 is not called
C18_Witness ==
    /\ LastGatewayCall
    /\ LastName = X
    /\ last.out.gw.phase = "trial"
    /\ Len(last.out.gw.order) = 2
    /\ CannotInitialize(last.out.gw.order[1])
    /\ Serves(last.out.gw.order[2], X)
    /\ Len(last.out.gw.calls) = 1
    /\ last.out.gw.err = last.out.gw.calls[1].err
    /\ last.out.gw.err # NoErr

\* the requests sent so far, in the order they were sent
IsWireRequest(e) == e.kind = "request"
RequestsSent == SelectSeq(wire, IsWireRequest)

\* no goroutine is between taking an id and sending the request that uses it
NoIDPending == \A g \in Goroutines : gpc[g] \notin {"incr", "send"}

\* C19: the ids of the requests a streamable-http transport sends are 1, 2,
\* 3, ... across initialize, tools/list and tools/call, also when ListTools
\* and CallTool are called concurrently on the client: no id is used twice,
\* the first request has id 1, and when every id taken has been sent the ids
\* sent are 1..n.  (Requests of concurrent calls may reach the wire in
\* another order than their ids were taken; that is not counted against
\* the order.)
C19_RequestIDs ==
    /\ \A i, j \in 1..Len(RequestsSent) :
          i # j => RequestsSent[i].id # RequestsSent[j].id
    /\ RequestsSent # << >> => RequestsSent[1].id = 1
    /\ NoIDPending =>
          {RequestsSent[i].id : i \in 1..Len(RequestsSent)} = 1..Len(RequestsSent)

\* two goroutines are inside ListTools / CallTool and have sent requests
\* with the same id
C19_Witness ==
    /\ gpc = [g \in Goroutines |-> "await"]
    /\ \E i, j \in 1..Len(RequestsSent) :
          /\ i # j
          /\ RequestsSent[i].id = RequestsSent[j].id
          /\ RequestsSent[i].method \in ClientOps
          /\ RequestsSent[j].method \in ClientOps

\* the session token most recently received before position i of the wire,
\* NoToken when no response before i carried one
RECURSIVE TokenBefore(_)
TokenBefore(i) ==
    IF i <= 1 THEN NoToken
    ELSE IF wire[i - 1].kind = "response" /\ wire[i - 1].session # NoToken
         THEN wire[i - 1].session
         ELSE TokenBefore(i - 1)

\* C20: once a response of the backend, to initialize, tools/list or
\* tools/call, has carried a session token, every later request of the
\* transport carries the most recently received token in its session header.
C20_SessionReplayed ==
    \A i \in 1..Len(wire) :
        (wire[i].kind = "request" /\ TokenBefore(i) # NoToken)
        => wire[i].session = TokenBefore(i)

\* one goroutine: the tools/list response carried a token and the tools/call
\* request that follows carries none
C20_Witness ==
    /\ Len(wire) >= 5
    /\ wire[1].method = "initialize" /\ wire[2].session = NoToken /\ wire[2].status = "200"
    /\ wire[3].kind = "request" /\ wire[3].method = "tools/list"
    /\ wire[4].kind = "response" /\ wire[4].session = "s1"
    /\ wire[5].kind = "request" /\ wire[5].method = "tools/call"
    /\ wire[5].session = NoToken

(***************************************************************************)
(* Properties of the REST front end                                        *)
(***************************************************************************)
LastREST == last.op = "REST"
AllowedMethod(path) == IF path = "/tools/call" THEN "POST" ELSE "GET"
LastDecoded == DecodeToolCallRequest(last.r.body)

\* no backend of the registry the request found hosts the tool named n:
\* each of them answers the call with HTTP 404
HostedNowhere(n) ==
    \A b \in DOMAIN last.pre : AnsweredNotFound(ClientCallTool(b, last.pre[b], n))

\* C21: a REST request with the wrong HTTP method is answered 405 before
\* the body is read or a tool is invoked (GET only for /initialize and
\* /tools/list, POST only for /tools/call); a POST /tools/call whose body is
\* not JSON is answered 400; a POST /tools/call that names a tool that is
\* not local and that no backend of the gateway hosts is answered 404.
C21_RESTStatus ==
    LastREST =>
        /\ last.r.method # AllowedMethod(last.r.path) =>
              /\ last.out = RESTReply("405", MethodNotAllowed, << >>, << >>, NoGatewayCall)
              /\ clients = last.pre
        /\ (last.r.path = "/tools/call" /\ last.r.method = "POST" /\ ~last.r.body.valid) =>
              /\ last.out.status = "400"
              /\ last.out.gw = NoGatewayCall
        /\ (/\ last.r.path = "/tools/call" /\ last.r.method = "POST"
            /\ LastDecoded.ok
            /\ LastDecoded.Name \notin {<<"echo">>, <<"google_pse_search">>}
            /\ (~serverGateway \/ HostedNowhere(LastDecoded.Name))) =>
              /\ last.out.status = "404"
              /\ last.out.content = << >>

\* a GET /tools/call with a body that is not JSON: 405, not 400
C21_Witness ==
    /\ LastREST
    /\ last.r = [path |-> "/tools/call", method |-> "GET", body |-> NotJSON]
    /\ last.out.status = "405"

\* a POST /tools/call for x, which the registered backend answers with 404
RESTNotFoundThroughGateway ==
    /\ LastREST
    /\ serverGateway
    /\ DOMAIN last.pre # {}
    /\ last.r.path = "/tools/call" /\ last.r.method = "POST"
    /\ LastDecoded.ok /\ LastDecoded.Name = X
    /\ Len(last.out.gw.calls) = 1
    /\ last.out.status = "404"

\* C22: with no gateway configured the REST /tools/list handler returns
\* exactly one tool, the local echo descriptor.
C22_OnlyEcho ==
    (LastREST /\ ~serverGateway /\ last.r.path = "/tools/list" /\ last.r.method = "GET") =>
        /\ last.out.status = "200"
        /\ last.out.tools = <<GetEchoTool>>

\* the list of a server without gateway holds two tools
C22_Witness ==
    /\ LastREST
    /\ ~serverGateway
    /\ last.r.path = "/tools/list" /\ last.r.method = "GET"
    /\ last.out.status = "200"
    /\ Len(last.out.tools) = 2
    /\ last.out.tools[1] = GetEchoTool
    /\ last.out.tools[2].name = <<"google_pse_search">>

(***************************************************************************)
(* Properties of the session table                                         *)
(***************************************************************************)
\* C23: every POST handled by handleMCP is answered in the end; a call of
\* getOrCreateSession that has to mint a session never asks for the session
\* mutex while it holds it, and the mutex is free again afterwards, so that
\* later requests proceed.
C23_Responds ==
    /\ \A r \in Requests : (pc[r] = "getOrCreateSession") ~> (pc[r] = "done")
    /\ [](\A r \in Requests : pc[r] = "generateSessionID" => mu # r)
    /\ \A r \in Requests : (mu = r) ~> (mu # r)

\* one handler waits in generateSessionID for the mutex it holds and a later
\* request waits for the same mutex at the head of getOrCreateSession
C23_Witness ==
    \E r, q \in Requests :
        /\ r # q
        /\ pc[r] = "generateSessionID" /\ mu = r
        /\ pc[q] = "getOrCreateSession"
        /\ reply[r] = NoReply /\ reply[q] = NoReply

IsStart(e, ops) == e.kind = "start" /\ e.method \in ops
IsReturn(e, ops) == e.kind = "return" /\ e.method \in ops
InitializeSucceeded(e) == IsReturn(e, {"Initialize"}) /\ e.status = "200"

\* the transport initializations that have started and not yet returned
InitializeInProgress ==
    Len(SelectSeq(wire, LAMBDA e : IsStart(e, {"Initialize"})))
        - Len(SelectSeq(wire, LAMBDA e : IsReturn(e, {"Initialize"})))

\* C24: under every interleaving of concurrent Initialize, ListTools and
\* CallTool on one client, at most one transport initialization is in
\* progress, none starts after one has succeeded, and no transport ListTools
\* or CallTool starts before an initialization has succeeded.
C24_InitializeOnce ==
    /\ InitializeInProgress <= 1
    /\ \A i, j \in DOMAIN wire :
          InitializeSucceeded(wire[i]) /\ i < j => ~IsStart(wire[j], {"Initialize"})
    /\ \A j \in DOMAIN wire :
          IsStart(wire[j], {"ListTools", "CallTool"})
              => \E i \in 1..(j - 1) : InitializeSucceeded(wire[i])

\* an initialization failed, a later one succeeded, another goroutine then
\* started CallTool on the transport while a third call waits for the lock
C24_Witness ==
    /\ \E i, j, k \in DOMAIN wire :
          /\ i < j /\ j < k
          /\ IsReturn(wire[i], {"Initialize"}) /\ wire[i].status = "500"
          /\ InitializeSucceeded(wire[j])
          /\ IsStart(wire[k], {"CallTool"}) /\ wire[k].id # wire[j].id
    /\ \E g \in Goroutines : gpc[g] = "transport"
    /\ \E g \in Goroutines : gpc[g] = "lock" /\ glocal[g].op = "Initialize"

\* the goroutines of the running or the latest ListAllTools that have not ended
WorkersLeft == {b \in DOMAIN workers : workers[b].pc # "exited"}

\* C25: ListAllTools starts exactly one ListTools call per backend of the
\* snapshot it takes, and when it has returned every one of them has
\* completed and no goroutine it started is running or blocked on its send.
C25_FanOut ==
    /\ DOMAIN workers = lister.snapshot
    /\ \A b \in lister.snapshot : workers[b].started <= 1
    /\ lister.pc = "returned" =>
          /\ WorkersLeft = {}
          /\ \A b \in lister.snapshot : workers[b].started = 1
          /\ {lister.received[i].b : i \in 1..Len(lister.received)} = lister.snapshot
          /\ Len(lister.received) = Cardinality(lister.snapshot)
          /\ results = << >>

\* a ListAllTools over two backends has returned: one ListTools failed, the
\* other one's two tools are the result
C25_Witness ==
    /\ lister.pc = "returned"
    /\ Cardinality(lister.snapshot) = 2
    /\ \E i, j \in 1..Len(lister.received) :
          lister.received[i].err # NoErr /\ lister.received[j].err = NoErr
    /\ last.op = "ListAllTools" /\ Len(last.out.tools) = 2

\* two ListTools calls of one ListAllTools are in progress at the same time
ListedConcurrently ==
    /\ lister.pc = "collect"
    /\ Cardinality({b \in DOMAIN workers : workers[b].pc = "listing"}) = 2

\* a ListAllTools has returned without listing a client that was registered
\* after its snapshot
ListedAfterSnapshot ==
    /\ lister.pc = "returned"
    /\ lister.snapshot # {}
    /\ DOMAIN clients # lister.snapshot
    /\ DOMAIN workers = lister.snapshot

\* the registered backends whose non-empty prefix begins the name
Owners(name) == {b \in DOMAIN clients : PrefixMatches(b, name)}

\* the backend the first loop of CallTool selects when it ranges in `order`
OwnerChosen(name, order) == order[FirstMatch(name, order)]

\* C26: in every state of the Gateway and for every tool name at most one
\* registered backend has a non-empty prefix that begins the name, so the
\* backend the prefix phase of CallTool chooses depends on the name and the
\* registry only, not on the order in which the registry is ranged over.
C26_OneOwner ==
    \A name \in CallNames :
        /\ Cardinality(Owners(name)) <= 1
        /\ \A o1, o2 \in Perms(DOMAIN clients) :
              Owners(name) # {} => OwnerChosen(name, o1) = OwnerChosen(name, o2)

\* two backends are registered with the same prefix and a tools/call for a
\* name with that prefix was routed to one of them, which another range
\* order would have routed to the other
C26_Witness ==
    /\ LastGatewayCall
    /\ last.out.gw.phase = "prefix"
    /\ last.pre = clients
    /\ Cardinality(Owners(LastName)) = 2
    /\ \E o \in Perms(DOMAIN clients) :
          OwnerChosen(LastName, o) # last.out.gw.calls[1].b

\* the trial phase of the latest CallTool took the failure of its i-th
\* client call for tool-not-found: it went on, or ended with its own
\* not-found error
TrialTookForNotFound(i) ==
    \/ i < Len(last.out.gw.calls)
    \/ last.out.gw.err = GatewayNotFound(LastName)

\* the handler took the error of the latest CallTool for tool-not-found
HandlerTookForNotFound ==
    /\ last.out.gw.err # NoErr
    /\ last.out.err = <<"tool">> \o Quote(LastName) \o NotFoundText

\* C27: a failed client call is taken for tool-not-found, by the trial phase
\* of CallTool and by the tools/call handler, exactly when the backend
\* answered HTTP 404 on the call; another status, a refused connection or a
\* failed initialization is not, whatever its text.
C27_ExactNotFound ==
    LastGatewayCall =>
        LET gw == last.out.gw IN
        /\ gw.phase = "trial" =>
              \A i \in 1..Len(gw.calls) :
                  gw.calls[i].err # NoErr =>
                      (TrialTookForNotFound(i) <=> AnsweredNotFound(gw.calls[i]))
        /\ (gw.phase = "prefix" /\ gw.err # NoErr) =>
              (HandlerTookForNotFound <=> AnsweredNotFound(gw.calls[1]))

\* the backend that owns the prefix answered its initialization with 404,
\* no tools/call reached it, and the handler answered tool-not-found
C27_Witness ==
    /\ LastGatewayCall
    /\ last.out.gw.phase = "prefix"
    /\ Len(last.out.gw.calls[1].log) = 1
    /\ last.out.gw.calls[1].log[1].op = "Initialize"
    /\ last.out.gw.calls[1].log[1].http.status = "404"
    /\ HandlerTookForNotFound

CalledBy(h) == {gwpc[h].out.calls[i].b : i \in 1..Len(gwpc[h].out.calls)}

\* the backends the CallTool of goroutine g, which waits for the read lock,
\* calls when it ranges over the registry in `order`
WouldCall(g, order) ==
    LET calls == GatewayCallTool(gwpc[g].name, order, order).calls
    IN  {calls[i].b : i \in 1..Len(calls)}

\* g waits for the read lock while h's call is in progress on other backends
\* than the ones g is going to call
OnDifferentBackends(g, h) ==
    /\ gwpc[g].pc = "rlock"
    /\ gwpc[h].pc = "calling"
    /\ CalledBy(h) # {}
    /\ \A order \in Perms(DOMAIN clients) :
          WouldCall(g, order) # {} /\ WouldCall(g, order) \cap CalledBy(h) = {}

\* C29: CallTool invocations routed to different backends are not serialized
\* by the registry lock: whatever else is requested of the Gateway, AddClient
\* and CloseAll included, a CallTool that asks for the read lock while a
\* CallTool on another backend is in progress is granted it without that
\* call having to return first.
C29_NotSerialized ==
    \A g, h \in Goroutines : OnDifferentBackends(g, h) => gmu.pending = NoWriter

\* a call on the second backend is in progress, AddClient waits for the
\* write lock, and a call for `p:x`, owned by the first backend, waits for
\* the read lock
C29_Witness ==
    \E g, h \in Goroutines :
        /\ OnDifferentBackends(g, h)
        /\ gwpc[g].name = <<"p:", "x">>
        /\ CalledBy(h) = {2}
        /\ gmu.pending.op = "AddClient"
        /\ gmu.readers = {h}

\* the latest tools/call named a tool
LastNamed == last.op = "tools/call" /\ ~last.params.nil /\ IsString(last.params.m, "name")

\* C30: a tools/call whose name is that of a local capability makes no call
\* to the Gateway, also when a backend hosts a tool of that name and when the
\* local invocation fails; a tools/call with any other name is handed to the
\* Gateway.
C30_LocalFirst ==
    LastNamed =>
        IF LastName \in LocalNames
        THEN /\ last.out.gw = NoGatewayCall
             /\ clients = last.pre
        ELSE serverGateway => last.out.gw.phase # "none"

\* a backend hosts `echo`, and a tools/call for echo whose message is not a
\* string has failed
C30_Witness ==
    /\ LastNamed
    /\ LastName = <<"echo">>
    /\ last.out.err # NoErr
    /\ \E b \in DOMAIN last.pre : Hosts(b, <<"echo">>) /\ last.pre[b].prefix = << >>

\* a backend hosts `google_pse_search` and the local search has answered
LocalSearchAnswered ==
    /\ LastNamed
    /\ LastName = <<"google_pse_search">>
    /\ last.out.err = NoErr
    /\ \E b \in DOMAIN last.pre : Hosts(b, <<"google_pse_search">>)

\* a name that is no local capability's was handed to the Gateway, which
\* found it on a backend
DelegatedToGateway ==
    /\ LastNamed
    /\ LastName \notin LocalNames
    /\ last.out.gw.phase = "trial"
    /\ last.out.err = NoErr

\* backend b answers a ListTools made on the registry the latest operation
\* found: it is up, and initialized or ready to be
AnswersList(b) ==
    /\ backend[b].health = "up"
    /\ last.pre[b].initialized \/ backend[b].init = "ok"

\* the i-th tool of backend b as its client reports it
ReportedTool(b, i) ==
    [name |-> last.pre[b].prefix \o backend[b].tools[i], description |-> <<NameOf[b]>>]

\* the tools of the backends that answer, by backend and position
AnsweredTools ==
    UNION {{<<b, i>> : i \in 1..Len(backend[b].tools)} :
              b \in {c \in DOMAIN last.pre : AnswersList(c)}}

\* C31: tools/list never fails: whatever the backends do, and with no gateway
\* at all, it returns no error and a result that begins with the two local
\* descriptors, followed by the tools of the backends that answered and by
\* nothing else.
C31_ToolsListNeverFails ==
    last.op = "tools/list" =>
        LET tools == last.out.result.tools IN
        /\ last.out.err = NoErr
        /\ Len(tools) >= 2
        /\ tools[1] = GetEchoTool
        /\ tools[2] = GetGooglePSETool
        /\ IF serverGateway
           THEN /\ Len(tools) = 2 + Cardinality(AnsweredTools)
                /\ \A p \in AnsweredTools :
                      \E k \in 3..Len(tools) : tools[k] = ReportedTool(p[1], p[2])
           ELSE Len(tools) = 2

\* one backend cannot be initialized, the other answers with two tools
C31_Witness ==
    /\ last.op = "tools/list"
    /\ Cardinality(DOMAIN last.pre) = 2
    /\ \E b, c \in DOMAIN last.pre :
          /\ ~last.pre[b].initialized /\ backend[b].init = "500"
          /\ AnswersList(c) /\ Len(backend[c].tools) = 2
    /\ Len(last.out.result.tools) = 4

\* tools/list with every backend down, and with no gateway
ToolsListLocalOnly ==
    /\ last.op = "tools/list"
    /\ serverGateway => (Cardinality(DOMAIN last.pre) = 2
                         /\ \A b \in DOMAIN last.pre : backend[b].health = "down")
    /\ Len(last.out.result.tools) = 2

\* the name asked for by the latest tools/call put to handleMCP
HandledName == last.r.body.params.m["name"].v

\* the latest request was a tools/call whose Gateway.CallTool failed
GatewayCallFailed ==
    /\ LastHandled
    /\ last.r.body.ok /\ last.r.body.method = "tools/call"
    /\ last.out.gw.phase # "none"
    /\ last.out.gw.err # NoErr

\* Gateway.CallTool reported not-found: its own not-found error, or that of
\* the backend that owns the prefix and answered 404 on the call
GatewayReportedNotFound ==
    \/ last.out.gw.err = GatewayNotFound(HandledName)
    \/ last.out.gw.phase = "prefix" /\ AnsweredNotFound(last.out.gw.calls[1])

\* C32: a tools/call whose Gateway.CallTool reports not-found is answered
\* with a server-error envelope whose message is the tool-not-found text for
\* the requested name; when Gateway.CallTool fails in another way the
\* envelope carries that error's message unchanged; either way the failure
\* is one error envelope with status 200 and the registry is as it was for
\* the requests that follow.
C32_ErrorTranslation ==
    GatewayCallFailed =>
        /\ last.out.status = "200"
        /\ last.out.envelope.code = ServerErrorCode
        /\ last.out.envelope.result = NoResult
        /\ last.out.envelope.message =
              IF GatewayReportedNotFound
              THEN <<"tool">> \o Quote(HandledName) \o NotFoundText
              ELSE last.out.gw.err
        /\ DOMAIN clients = DOMAIN last.pre

\* the backend that owns the prefix answered the call with 500 and a body
\* that holds the words "not found"; the envelope says tool-not-found
C32_Witness ==
    /\ GatewayCallFailed
    /\ last.out.gw.phase = "prefix"
    /\ \E i \in 1..Len(last.out.gw.calls[1].log) :
          /\ last.out.gw.calls[1].log[i].op = "CallTool"
          /\ last.out.gw.calls[1].log[i].http.status = "500"
    /\ last.out.envelope.message = <<"tool">> \o Quote(HandledName) \o NotFoundText

\* the transport operations `op` that client call r made
Issued(r, op) == Cardinality({k \in 1..Len(r.log) : r.log[k].op = op})

\* the transport operation recorded in e failed
ExchangeFailed(e) == e.http.net = "err" \/ e.http.status # "200"

\* C33: nothing is retried: within one Gateway operation each backend is
\* called at most once, and within one client call the transport is asked at
\* most once to initialize and at most once to list or to call; a transport
\* operation that fails is the last one of its client call, whose error is
\* returned.
C33_NoRetry ==
    \A i \in 1..Len(LastCalls) :
        LET r == LastCalls[i] IN
        /\ \A j \in 1..Len(LastCalls) : LastCalls[j].b = r.b => j = i
        /\ Issued(r, "Initialize") <= 1
        /\ Issued(r, "ListTools") + Issued(r, "CallTool") <= 1
        /\ Len(r.log) = Issued(r, "Initialize") + Issued(r, "ListTools") + Issued(r, "CallTool")
        /\ \A k \in 1..Len(r.log) :
              ExchangeFailed(r.log[k]) => (k = Len(r.log) /\ r.err # NoErr)

\* a tools/call tried both backends: the first one failed its initialization,
\* the second one was initialized and answered the call with a failure
C33_Witness ==
    /\ last.op = "tools/call"
    /\ Len(LastCalls) = 2
    /\ Len(LastCalls[1].log) = 1 /\ ExchangeFailed(LastCalls[1].log[1])
    /\ Len(LastCalls[2].log) = 2 /\ ExchangeFailed(LastCalls[2].log[2])
    /\ last.out.err # NoErr

\* C34: every response envelope carries exactly one of result and error: a
\* success a result and no error; a parse failure, an invalid request, an
\* unknown method and a handler failure an error and no result.
C34_ResultOrError ==
    LastHandled =>
        LET body == last.r.body
            keys == last.out.keys
        IN  /\ Cardinality(keys \cap {"result", "error"}) = 1
            /\ {"jsonrpc", "id"} \subseteq keys
            /\ "error" \in keys <=> last.out.envelope.code # 0
            /\ "result" \in keys <=>
                  /\ body.ok /\ body.jsonrpc = "2.0"
                  /\ body.method \in KnownMethods
                  /\ last.out.herr = NoErr

\* a tools/call for echo succeeds: its envelope holds a result and no error
C34_Witness ==
    /\ LastHandled
    /\ last.r.body.ok /\ last.r.body.method = "tools/call"
    /\ last.out.envelope.code = 0
    /\ last.out.keys = {"jsonrpc", "id", "result"}

\* a handler failure is answered with an error and no result
HandlerFailureEncoded ==
    /\ LastHandled
    /\ last.out.herr # NoErr
    /\ last.out.keys = {"jsonrpc", "id", "error"}

\* the names the latest client call gave to the transport's CallTool
ForwardedNames ==
    {last.out.log[k].name : k \in {j \in 1..Len(last.out.log) : last.out.log[j].op = "CallTool"}}

\* C35: for a client with prefix p, empty or not, and every tool name n its
\* transport reports, the name p+n that ListTools returns, passed to
\* CallTool on the same client, is forwarded to the transport as n.
C35_RoundTrip ==
    last.op = "CallTool" =>
        /\ last.name = clients[last.b].prefix \o backend[last.b].tools[last.i]
        /\ ForwardedNames = {backend[last.b].tools[last.i]}

\* the transport reports a tool with the empty name behind the prefix `p:`;
\* the listed name `p:` is forwarded as `p:`
C35_Witness ==
    /\ last.op = "CallTool"
    /\ clients[last.b].prefix = <<"p:">>
    /\ backend[last.b].tools[last.i] = << >>
    /\ last.name = <<"p:">>
    /\ ForwardedNames = {<<"p:">>}

\* a tool whose own name begins with the prefix comes back as it was
PrefixedNameRoundTrip ==
    /\ last.op = "CallTool"
    /\ clients[last.b].prefix = <<"p:">>
    /\ last.name = <<"p:", "p:", "x">>
    /\ ForwardedNames = {<<"p:", "x">>}

LastStreamDecoded == last.op = "parseStreamableHTTPResponse"

\* the response is classified as streamed: by its content type, or by a body
\* that begins with `event:` or `data:`
ClassifiedStreamed ==
    \/ Contains(last.contentType, <<"text/event-stream">>)
    \/ /\ last.body[1].text # << >>
       /\ last.body[1].text[1] \in {"event:", "event: ", "data:", "data: "}

\* C36: a response classified as streamed whose first block's data lines
\* hold a JSON document is decoded to that document; a response that is not
\* classified as streamed is decoded as one plain JSON document; a streamed
\* body without a block is decoded whole.
C36_DetectionAndParsing ==
    LastStreamDecoded =>
        /\ (/\ ClassifiedStreamed
            /\ Documents(last.body) # << >>
            /\ Documents(last.body)[1] \in JSONDocuments)
           => last.out = [target |-> Documents(last.body)[1], err |-> NoErr]
        /\ ~ClassifiedStreamed => last.out = jsonUnmarshal(BodyBytes(last.body, 1))
        /\ (ClassifiedStreamed /\ Documents(last.body) = << >>)
           => last.out = jsonUnmarshal(BodyBytes(last.body, 1))

\* a response with a JSON content type whose body begins with `data: ` is
\* taken for a stream; the event line inside its block cuts the document
\* and the decoding fails
C36_Witness ==
    /\ LastStreamDecoded
    /\ last.contentType = <<"application/json">>
    /\ last.body = <<Line(<<"data: ", "{a">>), Line(<<"event: ", "message">>),
                     Line(<<"data: ", "b}">>)>>
    /\ Documents(last.body)[1] = <<"{a", "b}">>
    /\ last.out.err # NoErr

\* a body that begins with `data:` and no space is taken for a stream, holds
\* no line the parser reads as data, and fails to decode as a whole
DataWithoutSpace ==
    /\ LastStreamDecoded
    /\ last.contentType = <<"application/json">>
    /\ last.body = <<Line(<<"data:", "{c}">>), BlankLine>>
    /\ last.out.err # NoErr

\* an event-stream response whose block begins with its event line decodes
\* to the document of its data line
StreamedDecoded ==
    /\ LastStreamDecoded
    /\ last.body = <<Line(<<"event: ", "message">>), Line(<<"data: ", "{a}">>), BlankLine>>
    /\ last.out = [target |-> <<"{a}">>, err |-> NoErr]

LastClosed == last.op = "CloseAll"

\* the backends on which the latest operation called a client method
CalledOn == {last.out.calls[i].b : i \in 1..Len(last.out.calls)}

\* C37: CloseAll calls Close once on every registered backend, whatever the
\* earlier Close calls returned; it returns nil exactly when every Close
\* returned nil, and otherwise one error that names every backend whose
\* Close failed, with its cause, and no backend whose Close succeeded.
C37_CloseAll ==
    LastClosed =>
        /\ Len(last.out.calls) = Cardinality(DOMAIN last.pre)
        /\ CalledOn = DOMAIN last.pre
        /\ (last.out.err = NoErr) <=> (\A b \in DOMAIN last.pre : last.closeErr[b] = NoErr)
        /\ last.out.err # NoErr
           => HasPrefix(last.out.err, <<"errors", "closing", "clients", ":">>)
        /\ \A b \in DOMAIN last.pre :
              (last.closeErr[b] # NoErr)
                  <=> Contains(last.out.err, <<NameOf[b], ":">> \o last.closeErr[b])
        /\ \A b \in DOMAIN last.pre :
              (last.closeErr[b] = NoErr) => ~Contains(last.out.err, <<NameOf[b], ":">>)

\* the first Close fails, the second backend is closed all the same, and
\* the error names the first backend only
C37_Witness ==
    /\ LastClosed
    /\ Len(last.out.calls) = 2
    /\ last.out.calls[1].err # NoErr
    /\ last.out.calls[2].err = NoErr
    /\ last.out.err = <<"errors", "closing", "clients", ":", NameOf[last.out.calls[1].b], ":">>
                          \o last.out.calls[1].err

\* both Close calls fail and the error names both backends
BothCloseFailed ==
    /\ LastClosed
    /\ Len(last.out.calls) = 2
    /\ \A b \in DOMAIN last.pre : last.closeErr[b] # NoErr
    /\ \A b \in DOMAIN last.pre : Contains(last.out.err, <<NameOf[b], ":">>)

\* the call made on backend b by the latest operation exchanged no
\* initialize request
NotInitializedAgain(b) ==
    \A i \in 1..Len(last.out.calls) :
        last.out.calls[i].b = b
            => \A k \in 1..Len(last.out.calls[i].log) :
                  last.out.calls[i].log[k].op # "Initialize"

\* the backends of the registry found whose prefix begins the name called
MatchingBefore(name) ==
    {b \in DOMAIN last.pre :
        last.pre[b].prefix # << >> /\ HasPrefix(name, last.pre[b].prefix)}

\* C39: CloseAll changes neither the registry nor a client's initialized
\* flag.  Every closed backend stays registered, GetClient finds it and
\* AddClient under its name fails; ListAllTools still lists every closed
\* backend, CallTool still routes a name by its prefix to a closed backend,
\* and neither initializes a closed client that was initialized already.
C39_CloseAllFrame ==
    /\ LastClosed => (clients = last.pre /\ DOMAIN last.pre \subseteq closed)
    /\ \A b \in closed : GetClient(b).ok
    /\ (last.op = "AddClient" /\ last.c.name \in closed)
           => (last.out.err # NoErr /\ clients = last.pre)
    /\ last.op = "ListAllTools"
           => \A b \in closed :
                 /\ b \in CalledOn
                 /\ last.pre[b].initialized => NotInitializedAgain(b)
    /\ last.op = "CallTool"
           => /\ MatchingBefore(last.name) # {}
                 => (last.out.phase = "prefix" /\ CalledOn \subseteq MatchingBefore(last.name))
              /\ MatchingBefore(last.name) = {}
                 => (last.out.phase = "trial"
                     /\ (last.out.err = GatewayNotFound(last.name)
                            => CalledOn = DOMAIN last.pre))
              /\ \A b \in closed \cap CalledOn :
                    last.pre[b].initialized => NotInitializedAgain(b)

\* a call is routed by its prefix to a backend that was closed while
\* initialized, and answered by it without an initialize exchange
C39_Witness ==
    /\ last.op = "CallTool"
    /\ last.out.phase = "prefix"
    /\ last.out.err = NoErr
    /\ \E b \in closed :
          /\ CalledOn = {b}
          /\ last.pre[b].initialized
          /\ NotInitializedAgain(b)
          /\ Len(last.out.calls[1].log) = 1

\* CloseAll has closed an initialized client and the flag still stands
ClosedWhileInitialized ==
    /\ LastClosed
    /\ \E b \in DOMAIN last.pre : last.pre[b].initialized /\ clients[b].initialized

\* AddClient under the name of a closed backend is refused
AddClientAfterClose ==
    /\ last.op = "AddClient"
    /\ last.c.name \in closed
    /\ last.out.err # NoErr

\* ListAllTools lists two closed backends
ListedAfterClose ==
    /\ last.op = "ListAllTools"
    /\ Cardinality(closed) = 2
    /\ CalledOn = closed
    /\ Len(last.out.tools) = 4

LastListed == last.op = "ListAllTools"

\* the number of tools the successful results hold
RECURSIVE ToolsReturned(_, _)
ToolsReturned(calls, i) ==
    IF i > Len(calls) THEN 0
    ELSE (IF calls[i].err = NoErr THEN Len(calls[i].tools) ELSE 0) + ToolsReturned(calls, i + 1)

\* the list `run` stands in `tools` from position k + 1 on, and no tool of
\* backend b stands anywhere else
RunAt(tools, k, run, b) ==
    /\ SubSeq(tools, k + 1, k + Len(run)) = run
    /\ \A j \in 1..Len(tools) :
          tools[j].description = <<NameOf[b]>> => j \in (k + 1)..(k + Len(run))

\* C38: in the list ListAllTools returns, the tools every successful
\* backend returned stand as one unbroken run, in the order in which that
\* backend's client returned them; the list holds these runs and nothing
\* else, so that only the order of the runs is left open.
C38_ContiguousRuns ==
    LastListed =>
        /\ \A i \in 1..Len(last.out.calls) :
              last.out.calls[i].err = NoErr
                  => \E k \in 0..(Len(last.out.tools) - Len(last.out.calls[i].tools)) :
                        RunAt(last.out.tools, k, last.out.calls[i].tools, last.out.calls[i].b)
        /\ Len(last.out.tools) = ToolsReturned(last.out.calls, 1)

\* two backends answered with two tools each; the result of the second
\* registered backend arrived first and its run stands first
C38_Witness ==
    /\ LastListed
    /\ Len(last.out.calls) = 2
    /\ last.out.calls[1].b = 2
    /\ last.out.calls[2].b = 1
    /\ Len(last.out.calls[1].tools) = 2
    /\ Len(last.out.calls[2].tools) = 2
    /\ last.out.tools = last.out.calls[1].tools \o last.out.calls[2].tools

\* the same two runs in the other order
RunsInRegistrationOrder ==
    /\ LastListed
    /\ Len(last.out.calls) = 2
    /\ last.out.calls[1].b = 1
    /\ Len(last.out.calls[1].tools) = 2
    /\ Len(last.out.calls[2].tools) = 2
    /\ last.out.tools = last.out.calls[1].tools \o last.out.calls[2].tools

====
